---- MODULE Spec2Model ----
(***************************************************************************)
(* Node lifecycle reconciliation engine of cloud-lifecycle-controller.      *)
(*                                                                         *)
(* Strings of the program that are taken apart or put together (node       *)
(* names, provider identifiers) are sequences of one-character strings.    *)
(* Error values are sequences of words (the words of err.Error()); the nil *)
(* error is the empty sequence.                                            *)
(***************************************************************************)
EXTENDS Integers, Sequences, FiniteSets, TLC

(***************************************************************************)
(* Bounds of the model.                                                    *)
(***************************************************************************)
\* how many changes the environment (other actors on the cluster store, the
\* infrastructure provider) makes in one behaviour
MaxEnvSteps == 2
\* how many times a node record is registered under one name
MaxUid == 2
\* how long the node names are that the aws builder is applied to
MaxAwsLen == 5
\* how long the scale set part of the node names is that the azure
\* functions are applied to
MaxPrefixLen == 1
\* how many conditions the lists hold that getNodeReadyCondition is applied to
MaxConds == 3

(***************************************************************************)
(* Strings.                                                                *)
(***************************************************************************)
EmptyString == << >>

\* strings.Split(s, "-"): the segments of s between hyphens, always at least one
RECURSIVE SplitFrom(_, _, _)
SplitFrom(s, i, cur) ==
    IF i > Len(s) THEN << cur >>
    ELSE IF s[i] = "-" THEN << cur >> \o SplitFrom(s, i + 1, << >>)
    ELSE SplitFrom(s, i + 1, Append(cur, s[i]))

Split(s) == SplitFrom(s, 1, << >>)

\* strings.Contains(s, sub) on sequences
Contains(s, sub) ==
    \E i \in 0 .. (Len(s) - Len(sub)) :
        \A j \in 1 .. Len(sub) : s[i + j] = sub[j]

Digits == {"0", "1", "2", "3", "4", "5", "6", "7", "8", "9"}

DigitVal(c) ==
    CASE c = "0" -> 0 [] c = "1" -> 1 [] c = "2" -> 2 [] c = "3" -> 3
      [] c = "4" -> 4 [] c = "5" -> 5 [] c = "6" -> 6 [] c = "7" -> 7
      [] c = "8" -> 8 [] c = "9" -> 9

DigitChar(d) ==
    CASE d = 0 -> "0" [] d = 1 -> "1" [] d = 2 -> "2" [] d = 3 -> "3"
      [] d = 4 -> "4" [] d = 5 -> "5" [] d = 6 -> "6" [] d = 7 -> "7"
      [] d = 8 -> "8" [] d = 9 -> "9"

\* strconv.ParseUint(s, 10, 64) succeeds: s is non-empty and all decimal digits
\* (the strings parsed here have six characters, so the value fits 64 bits)
ParseUintOK(s) == Len(s) > 0 /\ \A i \in 1 .. Len(s) : s[i] \in Digits

RECURSIVE ParseUintFrom(_, _, _)
ParseUintFrom(s, i, acc) ==
    IF i > Len(s) THEN acc ELSE ParseUintFrom(s, i + 1, acc * 10 + DigitVal(s[i]))

ParseUint(s) == ParseUintFrom(s, 1, 0)

\* strconv.FormatUint(u, 10)
RECURSIVE FormatUint(_)
FormatUint(u) ==
    IF u < 10 THEN << DigitChar(u) >>
    ELSE Append(FormatUint(u \div 10), DigitChar(u % 10))

(***************************************************************************)
(* Errors.                                                                 *)
(***************************************************************************)
ErrNil == << >>
ErrProviderNotSupported == << "provider", "not", "supported" >>
ErrInvalidVMName == << "vm", "id", "is", "invalid" >>
ErrCloudNotAzure == << "cloud", "provider", "is", "not", "azure" >>
\* the error an earlier nodeStatus gave a node without providerID
errProviderIDEmpty == << "ProviderID", "is", "empty" >>
ErrNoReadyCondition ==
    << "unable", "to", "find", "NodeReady", "condition.", "something", "is", "wrong,", "bruh" >>

\* errors of the cluster store: the distinguishable "already gone" error and
\* another one
ErrStoreNotFound == << "nodes", "not", "found" >>
ErrStoreOther == << "etcdserver:", "request", "timed", "out" >>

\* apierrors.IsNotFound
IsNotFound(err) == err = ErrStoreNotFound

\* errors of the infrastructure provider: one that is not-found-shaped, one
\* that is not
ErrCloudNotFoundShaped ==
    << "InvalidInstanceID.NotFound:", "instance", "does", "not", "exist" >>
ErrCloudNoAnswer == << "endpoint", "does", "not", "respond" >>
CloudErrors == {ErrCloudNotFoundShaped, ErrCloudNoAnswer}

\* variant: the message is searched for "not found"
isAWSNotFoundErrNotFound(err) == Contains(err, << "not", "found" >>)

isAWSNotFoundErr(err) == Contains(err, << "does", "not", "exist" >>)

(***************************************************************************)
(* Cloud provider context (cloudprovider.Interface).  name is what          *)
(* ProviderName() returns, type the Go type behind the interface; the      *)
(* other fields are those of azure.Cloud that the builders read.           *)
(***************************************************************************)
Cloud(name, type, sub, rg, vmType) ==
    [name |-> name, type |-> type, SubscriptionID |-> sub, ResourceGroup |-> rg,
     VMType |-> vmType]

AwsCloud == Cloud("aws", "aws.Cloud", << >>, << >>, << >>)
GceCloud == Cloud("gce", "gce.Cloud", << >>, << >>, << >>)
VsphereCloud == Cloud("vsphere", "vsphere.VSphere", << >>, << >>, << >>)
AzureVmssCloud == Cloud("azure", "azure.Cloud", << "s", "1" >>, << "r", "g" >>, "vmss")
AzureStandardCloud ==
    Cloud("azure", "azure.Cloud", << "s", "2" >>, << "r", "h" >>, "standard")
\* a provider that calls itself azure and is not an *azure.Cloud
FakeAzureCloud == Cloud("azure", "fake.Cloud", << >>, << >>, << >>)
\* a provider that calls itself aws and is not an *aws.Cloud
FakeAwsCloud == Cloud("aws", "fake.Cloud", << >>, << >>, << >>)

(***************************************************************************)
(* Provider identifier derivation.  An identifier is the sequence of the   *)
(* pieces fmt.Sprintf puts together: the literal pieces of the format      *)
(* string and the characters of the arguments.  A result is a pair         *)
(* [id, err].                                                              *)
(***************************************************************************)
Ret(id, err) == [id |-> id, err |-> err]

\* variant of awsProviderIDBuilder: names of more than four segments pass
awsProviderIDBuilderAtLeastFour(cloud, name) ==
    LET parts == Split(name)
    IN  IF Len(parts) < 4 \/ parts[3] # << "i" >>
        THEN Ret(EmptyString, ErrInvalidVMName)
        ELSE Ret(<< "aws:///" >> \o parts[3] \o << "-" >> \o parts[4], ErrNil)

awsProviderIDBuilder(cloud, name) ==
    LET parts == Split(name)
    IN  IF Len(parts) # 4 \/ parts[3] # << "i" >>
        THEN Ret(EmptyString, ErrInvalidVMName)
        ELSE Ret(<< "aws:///" >> \o parts[3] \o << "-" >> \o parts[4], ErrNil)

\* variant of extractAzureScaleSet: a name of six characters passes
extractAzureScaleSetSixPasses(name) ==
    IF Len(name) < 6
    THEN Ret(EmptyString, ErrInvalidVMName)
    ELSE Ret(SubSeq(name, 1, Len(name) - 6), ErrNil)

extractAzureScaleSet(name) ==
    IF Len(name) <= 6
    THEN Ret(EmptyString, ErrInvalidVMName)
    ELSE Ret(SubSeq(name, 1, Len(name) - 6), ErrNil)

\* name[len(name)-6:] faults for a name shorter than six characters
extractAzureVMIDFaults(name) == Len(name) < 6

\* variant of extractAzureVMID: the six characters are returned as they are
extractAzureVMIDKeepsZeros(name) ==
    LET suffix == SubSeq(name, Len(name) - 5, Len(name))
    IN  IF ~ParseUintOK(suffix)
        THEN Ret(EmptyString, ErrInvalidVMName)
        ELSE Ret(suffix, ErrNil)

extractAzureVMID(name) ==
    LET suffix == SubSeq(name, Len(name) - 5, Len(name))
    IN  IF ~ParseUintOK(suffix)
        THEN Ret(EmptyString, ErrInvalidVMName)
        ELSE Ret(FormatUint(ParseUint(suffix)), ErrNil)

\* variant of azureProviderIDBuilder: the scale set path whatever the VM type
azureProviderIDBuilderAlwaysVmss(cloud, name) ==
    IF cloud.type # "azure.Cloud" THEN Ret(EmptyString, ErrCloudNotAzure)
    ELSE LET scaleset == extractAzureScaleSet(name)
         IN  IF scaleset.err # ErrNil THEN Ret(EmptyString, scaleset.err)
             ELSE LET vmID == extractAzureVMID(name)
                  IN  IF vmID.err # ErrNil THEN Ret(EmptyString, vmID.err)
                      ELSE Ret(<< "azure:///subscriptions/" >> \o cloud.SubscriptionID
                               \o << "/resourceGroups/" >> \o cloud.ResourceGroup
                               \o << "/providers/Microsoft.Compute/virtualMachineScaleSets/" >>
                               \o scaleset.id
                               \o << "/virtualMachines/" >> \o vmID.id, ErrNil)

\* variant of azureProviderIDBuilder: the name is examined before the cloud
azureProviderIDBuilderNameFirst(cloud, name) ==
    LET scaleset == extractAzureScaleSet(name)
    IN  IF scaleset.err # ErrNil THEN Ret(EmptyString, scaleset.err)
        ELSE LET vmID == extractAzureVMID(name)
             IN  IF vmID.err # ErrNil THEN Ret(EmptyString, vmID.err)
                 ELSE IF cloud.type # "azure.Cloud"
                 THEN Ret(EmptyString, ErrCloudNotAzure)
                 ELSE IF cloud.VMType = "vmss"
                 THEN Ret(<< "azure:///subscriptions/" >> \o cloud.SubscriptionID
                          \o << "/resourceGroups/" >> \o cloud.ResourceGroup
                          \o << "/providers/Microsoft.Compute/virtualMachineScaleSets/" >>
                          \o scaleset.id
                          \o << "/virtualMachines/" >> \o vmID.id, ErrNil)
                 ELSE Ret(<< "azure:///subscriptions/" >> \o cloud.SubscriptionID
                          \o << "/resourceGroups/" >> \o cloud.ResourceGroup
                          \o << "/virtualMachines/" >> \o vmID.id, ErrNil)

azureProviderIDBuilder(cloud, name) ==
    IF cloud.type # "azure.Cloud" THEN Ret(EmptyString, ErrCloudNotAzure)
    ELSE LET scaleset == extractAzureScaleSet(name)
         IN  IF scaleset.err # ErrNil THEN Ret(EmptyString, scaleset.err)
             ELSE LET vmID == extractAzureVMID(name)
                  IN  IF vmID.err # ErrNil THEN Ret(EmptyString, vmID.err)
                      ELSE IF cloud.VMType = "vmss"
                      THEN Ret(<< "azure:///subscriptions/" >> \o cloud.SubscriptionID
                               \o << "/resourceGroups/" >> \o cloud.ResourceGroup
                               \o << "/providers/Microsoft.Compute/virtualMachineScaleSets/" >>
                               \o scaleset.id
                               \o << "/virtualMachines/" >> \o vmID.id, ErrNil)
                      ELSE Ret(<< "azure:///subscriptions/" >> \o cloud.SubscriptionID
                               \o << "/resourceGroups/" >> \o cloud.ResourceGroup
                               \o << "/virtualMachines/" >> \o vmID.id, ErrNil)

\* the keys of the map providerIDBuilders
providerIDBuilders == {"azure", "aws"}

\* variant of generateProviderID: a family without builder gets the aws one
generateProviderIDDefaultAws(cloud, name) ==
    IF cloud.name = "azure" THEN azureProviderIDBuilder(cloud, name)
    ELSE awsProviderIDBuilder(cloud, name)

generateProviderID(cloud, name) ==
    IF cloud.name \notin providerIDBuilders
    THEN Ret(EmptyString, ErrProviderNotSupported)
    ELSE IF cloud.name = "azure" THEN azureProviderIDBuilder(cloud, name)
    ELSE awsProviderIDBuilder(cloud, name)

(***************************************************************************)
(* Node records (corev1.Node): name, Spec.ProviderID, Status.Conditions    *)
(* and UID.  A condition is [type, status].                                *)
(***************************************************************************)
NodeReady == "Ready"
ConditionTrue == "True"
ConditionFalse == "False"
ConditionUnknown == "Unknown"

Cond(type, status) == [type |-> type, status |-> status]
NoCondition == Cond("", "")

Node(name, providerID, conds, uid) ==
    [name |-> name, providerID |-> providerID, conds |-> conds, uid |-> uid]

\* the first condition of type Ready, or an error when there is none
RECURSIVE ReadyFrom(_, _)
ReadyFrom(conds, i) ==
    IF i > Len(conds) THEN [cond |-> NoCondition, err |-> ErrNoReadyCondition]
    ELSE IF conds[i].type = NodeReady THEN [cond |-> conds[i], err |-> ErrNil]
    ELSE ReadyFrom(conds, i + 1)

\* variant of getNodeReadyCondition: the last condition of type Ready
getNodeReadyConditionLast(conds) ==
    LET ready == {i \in 1 .. Len(conds) : conds[i].type = NodeReady}
    IN  IF ready = {} THEN [cond |-> NoCondition, err |-> ErrNoReadyCondition]
        ELSE [cond |-> conds[CHOOSE i \in ready : \A j \in ready : j <= i],
              err |-> ErrNil]

getNodeReadyCondition(conds) == ReadyFrom(conds, 1)

(***************************************************************************)
(* providerNodeStatus                                                      *)
(***************************************************************************)
providerNodeStatusUnknown == 0
providerNodeStatusShutdown == 1
providerNodeStatusNotFound == 2

\* providerNodeStatus.String, as the sequence of its words
\* variant of StatusString: the names of the constants
StatusStringOfName(s) ==
    IF s = providerNodeStatusShutdown THEN "Shutdown"
    ELSE IF s = providerNodeStatusNotFound THEN "NotFound"
    ELSE "Unknown"

StatusString(s) ==
    IF s = providerNodeStatusShutdown THEN "Shutdown"
    ELSE IF s = providerNodeStatusNotFound THEN "Not Found"
    ELSE "Unknown"

deleteNodeEvent == "DeletingNode"
EventTypeNormal == "Normal"

(***************************************************************************)
(* The nodes of the model and what their records may hold.                 *)
(***************************************************************************)
\* "k-c-i-0a": four hyphen segments, the third one "i"
NameAws == << "k", "-", "c", "-", "i", "-", "0", "a" >>
\* "vm000012": a scale set name followed by six digits
NameVm == << "v", "m", "0", "0", "0", "0", "1", "2" >>
Names == {NameAws, NameVm}

\* an identifier recorded by the infrastructure layer
RecordedID == << "aws:///", "i", "-", "9" >>
ProviderIDs == {EmptyString, RecordedID}

CondLists ==
    { << >>,
      << Cond(NodeReady, ConditionTrue) >>,
      << Cond(NodeReady, ConditionFalse) >>,
      << Cond("MemoryPressure", ConditionFalse), Cond(NodeReady, ConditionUnknown) >> }

Clouds == {AwsCloud, AzureVmssCloud, GceCloud, FakeAzureCloud}

\* the absent record, and the zero corev1.Node
NoNode == Node(EmptyString, EmptyString, << >>, 0)

(***************************************************************************)
(* State.                                                                  *)
(***************************************************************************)
VARIABLES
    dryRun,     \* nodeReconciler.dryRun
    cloud,      \* nodeReconciler.cloud
    store,      \* the cluster store: node name -> record, NoNode when absent
    instance,   \* the provider's instance behind each node: Running, Shutdown, Gone
    faults,     \* whether calls to the provider and to the store may fail now
    queue,      \* the scheduler's work queue: the keys waiting for a pass
                \* (at the start, the keys of the records that exist)
    pass,       \* per key, the pass in flight or, if it was the last to run, finished
    registered, \* per name, how many records have been registered under it
    passes,     \* how many passes in a row have repeated the pass before them
                \* with nothing changed, modulo 2 (such a pass is still a step)
    envSteps    \* how many changes the environment has made

vars ==
    << dryRun, cloud, store, instance, faults, queue, pass, registered, passes, envSteps >>

Resp(val, err) == [val |-> val, err |-> err]
Result(requeue, err) == [Requeue |-> requeue, err |-> err]

\* a pass that has not started: pc is the position of the pass, getErr the
\* error client.Get returned, node the record fetched, ready the status of its Ready condition, providerID the resolved
\* identifier, existsResp and shutdownResp what the provider returned, status
\* and statusErr what nodeStatus returned (classified: it has returned),
\* deleteErr what Delete returned, calls the calls made to the collaborators in
\* order, events the events emitted, result what Reconcile returned (when
\* pc = "done")
IdlePass ==
    [pc |-> "idle", getErr |-> ErrNil, node |-> NoNode, ready |-> "", providerID |-> EmptyString,
     existsResp |-> Resp(FALSE, ErrNil), shutdownResp |-> Resp(FALSE, ErrNil),
     classified |-> FALSE, status |-> providerNodeStatusUnknown, statusErr |-> ErrNil,
     deleteErr |-> ErrNil, calls |-> << >>, events |-> << >>, result |-> Result(FALSE, ErrNil)]

Call(p, op, arg) == [p EXCEPT !.calls = Append(@, [op |-> op, arg |-> arg])]

Return(p, requeue, err) == [p EXCEPT !.pc = "done", !.result = Result(requeue, err)]

Init ==
    /\ dryRun \in BOOLEAN
    /\ cloud \in Clouds
    /\ \E k \in Names, id \in ProviderIDs, conds \in CondLists :
         store = [j \in Names |-> IF j = k THEN Node(k, id, conds, 1) ELSE NoNode]
    /\ instance = [k \in Names |-> "Running"]
    /\ faults = FALSE
    /\ queue = {k \in Names : store[k] # NoNode}
    /\ pass = [k \in Names |-> IdlePass]
    /\ registered = [k \in Names |-> IF store[k] = NoNode THEN 0 ELSE 1]
    /\ passes = 0
    /\ envSteps = 0

(***************************************************************************)
(* The engine.                                                             *)
(***************************************************************************)
\* variant of getProviderID: the provider family is looked up first
getProviderIDLookupFirst(c, node) ==
    IF c.name \notin providerIDBuilders
    THEN Ret(EmptyString, ErrProviderNotSupported)
    ELSE IF node.providerID # EmptyString
    THEN Ret(node.providerID, ErrNil)
    ELSE generateProviderID(c, node.name)

getProviderID(c, node) ==
    IF node.providerID # EmptyString
    THEN Ret(node.providerID, ErrNil)
    ELSE generateProviderID(c, node.name)

\* the event reconcileNode emits for a node and its status
\* the message of the event and of the log line: the pieces of
\* fmt.Sprintf("Deleting node %s because node status is %s", ...)
DeletingNodeMessage(node, status) ==
    << "Deleting node " >> \o node.name
        \o << " because node status is ", StatusString(status) >>

DeletingNodeEvent(node, status) ==
    [type |-> EventTypeNormal, reason |-> deleteNodeEvent, name |-> node.name,
     uid |-> node.uid, status |-> StatusString(status),
     message |-> DeletingNodeMessage(node, status)]

\* variants of reconcileNode: without the requeue on an Unknown status
reconcileNodeNoSettle(p, status, err, dry) ==
    LET q == [p EXCEPT !.classified = TRUE, !.status = status, !.statusErr = err]
        r == [Call(q, "Event", q.node.name)
              EXCEPT !.events = Append(@, DeletingNodeEvent(q.node, status))]
    IN  IF ~dry THEN [r EXCEPT !.pc = "delete"] ELSE Return(r, FALSE, ErrNil)

\* the event emitted only on the dry-run branch
reconcileNodeEventInDryRun(p, status, err, dry) ==
    LET q == [p EXCEPT !.classified = TRUE, !.status = status, !.statusErr = err]
        r == [Call(q, "Event", q.node.name)
              EXCEPT !.events = Append(@, DeletingNodeEvent(q.node, status))]
    IN  IF status = providerNodeStatusUnknown
        THEN Return(q, TRUE, ErrNil)
        ELSE IF ~dry
        THEN [q EXCEPT !.pc = "delete"]
        ELSE Return(r, FALSE, ErrNil)

\* the dry-run test inverted
reconcileNodeDryInverted(p, status, err, dry) ==
    LET q == [p EXCEPT !.classified = TRUE, !.status = status, !.statusErr = err]
        r == [Call(q, "Event", q.node.name)
              EXCEPT !.events = Append(@, DeletingNodeEvent(q.node, status))]
    IN  IF status = providerNodeStatusUnknown
        THEN Return(q, TRUE, ErrNil)
        ELSE IF dry
        THEN [r EXCEPT !.pc = "delete"]
        ELSE Return(r, FALSE, ErrNil)

\* the error of nodeStatus returned together with the requeue
reconcileNodeRequeueErr(p, status, err, dry) ==
    LET q == [p EXCEPT !.classified = TRUE, !.status = status, !.statusErr = err]
        r == [Call(q, "Event", q.node.name)
              EXCEPT !.events = Append(@, DeletingNodeEvent(q.node, status))]
    IN  IF status = providerNodeStatusUnknown
        THEN Return(q, TRUE, err)
        ELSE IF ~dry
        THEN [r EXCEPT !.pc = "delete"]
        ELSE Return(r, FALSE, ErrNil)

\* an Unknown status ends the pass without a requeue
reconcileNodeNoRequeue(p, status, err, dry) ==
    LET q == [p EXCEPT !.classified = TRUE, !.status = status, !.statusErr = err]
        r == [Call(q, "Event", q.node.name)
              EXCEPT !.events = Append(@, DeletingNodeEvent(q.node, status))]
    IN  IF status = providerNodeStatusUnknown
        THEN Return(q, FALSE, ErrNil)
        ELSE IF ~dry
        THEN [r EXCEPT !.pc = "delete"]
        ELSE Return(r, FALSE, ErrNil)

\* reconcileNode once nodeStatus has returned (status, err): requeue, or emit
\* the event and either skip the deletion (dry run) or go on to Delete
reconcileNode(p, status, err, dry) ==
    LET q == [p EXCEPT !.classified = TRUE, !.status = status, !.statusErr = err]
        r == [Call(q, "Event", q.node.name)
              EXCEPT !.events = Append(@, DeletingNodeEvent(q.node, status))]
    IN  IF status = providerNodeStatusUnknown
        THEN Return(q, TRUE, ErrNil)
        ELSE IF ~dry
        THEN [r EXCEPT !.pc = "delete"]
        ELSE Return(r, FALSE, ErrNil)

\* variant of reconcileNodeDeleted: the error of Delete is logged and dropped
reconcileNodeDeletedErrDropped(p, err) ==
    Return([p EXCEPT !.deleteErr = err], FALSE, ErrNil)

\* reconcileNode once client.Delete has returned err: the error is returned
\* variant of reconcileNodeDeleted: a failed Delete is reported by an event
\* of its own
reconcileNodeDeletedEventOnFailure(p, err) ==
    LET q == [p EXCEPT !.deleteErr = err]
        r == [Call(q, "Event", q.node.name)
              EXCEPT !.events = Append(@, DeletingNodeEvent(q.node, q.status))]
    IN  Return(IF err # ErrNil THEN r ELSE q, FALSE, err)

reconcileNodeDeleted(p, err) ==
    Return([p EXCEPT !.deleteErr = err], FALSE, err)

\* variant of nodeStatusResolve: a resolver error ends the pass with that error
nodeStatusResolveAborts(p, c, dry) ==
    LET id == getProviderID(c, p.node)
    IN  IF id.err # ErrNil
        THEN Return(p, FALSE, id.err)
        ELSE [p EXCEPT !.pc = "exists", !.providerID = id.id]

\* variant of nodeStatusResolve: the error of getProviderID is not looked at
nodeStatusResolveErrIgnored(p, c, dry) ==
    LET id == getProviderID(c, p.node)
    IN  [p EXCEPT !.pc = "exists", !.providerID = id.id]

\* variant of nodeStatusResolve: a node without identifier is left alone
nodeStatusResolveGivesUp(p, c, dry) ==
    LET id == getProviderID(c, p.node)
    IN  IF id.err # ErrNil
        THEN Return(p, FALSE, ErrNil)
        ELSE [p EXCEPT !.pc = "exists", !.providerID = id.id]

\* nodeStatus up to its first provider call
nodeStatusResolve(p, c, dry) ==
    LET id == getProviderID(c, p.node)
    IN  IF id.err # ErrNil
        THEN reconcileNode(p, providerNodeStatusUnknown, id.err, dry)
        ELSE [p EXCEPT !.pc = "exists", !.providerID = id.id]

\* variants of nodeStatusExists: a not-found-shaped error alone decides NotFound
nodeStatusExistsErrIsNotFound(p, resp, dry) ==
    LET q == [p EXCEPT !.existsResp = resp]
    IN  IF resp.err # ErrNil /\ ~isAWSNotFoundErr(resp.err)
        THEN reconcileNode(q, providerNodeStatusUnknown, resp.err, dry)
        ELSE IF ~resp.val \/ resp.err # ErrNil
        THEN reconcileNode(q, providerNodeStatusNotFound, ErrNil, dry)
        ELSE [q EXCEPT !.pc = "shutdown"]

\* no return on "does not exist": the shutdown query is always made
nodeStatusExistsNoReturn(p, resp, dry) ==
    LET q == [p EXCEPT !.existsResp = resp]
    IN  IF resp.err # ErrNil /\ ~isAWSNotFoundErr(resp.err)
        THEN reconcileNode(q, providerNodeStatusUnknown, resp.err, dry)
        ELSE [q EXCEPT !.pc = "shutdown"]

\* every error of the existence query is tolerated
nodeStatusExistsErrIgnored(p, resp, dry) ==
    LET q == [p EXCEPT !.existsResp = resp]
    IN  IF ~resp.val
        THEN reconcileNode(q, providerNodeStatusNotFound, ErrNil, dry)
        ELSE [q EXCEPT !.pc = "shutdown"]

\* nodeStatus from the answer of InstanceExistsByProviderID to its next call
\* variant of nodeStatusExists: a hard error makes nodeStatus ask again
nodeStatusExistsRetries(p, resp, dry) ==
    LET q == [p EXCEPT !.existsResp = resp]
    IN  IF resp.err # ErrNil /\ ~isAWSNotFoundErr(resp.err)
        THEN [q EXCEPT !.pc = "exists"]
        ELSE IF ~resp.val
        THEN reconcileNode(q, providerNodeStatusNotFound, ErrNil, dry)
        ELSE [q EXCEPT !.pc = "shutdown"]

nodeStatusExists(p, resp, dry) ==
    LET q == [p EXCEPT !.existsResp = resp]
    IN  IF resp.err # ErrNil /\ ~isAWSNotFoundErr(resp.err)
        THEN reconcileNode(q, providerNodeStatusUnknown, resp.err, dry)
        ELSE IF ~resp.val
        THEN reconcileNode(q, providerNodeStatusNotFound, ErrNil, dry)
        ELSE [q EXCEPT !.pc = "shutdown"]

\* variant of nodeStatusShutdown: every error of the shutdown query is tolerated
nodeStatusShutdownErrIgnored(p, resp, dry) ==
    LET q == [p EXCEPT !.shutdownResp = resp]
    IN  IF resp.val
        THEN reconcileNode(q, providerNodeStatusShutdown, ErrNil, dry)
        ELSE reconcileNode(q, providerNodeStatusUnknown, ErrNil, dry)

\* nodeStatus from the answer of InstanceShutdownByProviderID on
nodeStatusShutdown(p, resp, dry) ==
    LET q == [p EXCEPT !.shutdownResp = resp]
    IN  IF resp.err # ErrNil /\ ~isAWSNotFoundErr(resp.err)
        THEN reconcileNode(q, providerNodeStatusUnknown, resp.err, dry)
        ELSE IF resp.val
        THEN reconcileNode(q, providerNodeStatusShutdown, ErrNil, dry)
        ELSE reconcileNode(q, providerNodeStatusUnknown, ErrNil, dry)

\* variants of reconcileFetched: a missing record is an error of the pass
reconcileFetchedNotFoundFails(k, node, getErr, c, dry) ==
    LET p == [Call(IdlePass, "Get", k) EXCEPT !.getErr = getErr]
    IN  IF getErr # ErrNil
        THEN Return(p, FALSE, getErr)
        ELSE LET status == getNodeReadyCondition(node.conds)
                 q == [p EXCEPT !.node = node, !.ready = status.cond.status]
             IN  IF status.err # ErrNil THEN Return(q, FALSE, status.err)
                 ELSE IF status.cond.status \in {ConditionFalse, ConditionUnknown}
                 THEN nodeStatusResolve(q, c, dry)
                 ELSE Return(q, FALSE, ErrNil)

\* an error of Get asks for a requeue instead of being returned
reconcileFetchedErrRequeued(k, node, getErr, c, dry) ==
    LET p == [Call(IdlePass, "Get", k) EXCEPT !.getErr = getErr]
    IN  IF getErr # ErrNil
        THEN IF IsNotFound(getErr) THEN Return(p, FALSE, ErrNil)
             ELSE Return(p, TRUE, ErrNil)
        ELSE LET status == getNodeReadyCondition(node.conds)
                 q == [p EXCEPT !.node = node, !.ready = status.cond.status]
             IN  IF status.err # ErrNil THEN Return(q, FALSE, status.err)
                 ELSE IF status.cond.status \in {ConditionFalse, ConditionUnknown}
                 THEN nodeStatusResolve(q, c, dry)
                 ELSE Return(q, FALSE, ErrNil)

\* a record without a Ready condition is ignored
reconcileFetchedNoReadyIgnored(k, node, getErr, c, dry) ==
    LET p == [Call(IdlePass, "Get", k) EXCEPT !.getErr = getErr]
    IN  IF getErr # ErrNil
        THEN IF IsNotFound(getErr) THEN Return(p, FALSE, ErrNil)
             ELSE Return(p, FALSE, getErr)
        ELSE LET status == getNodeReadyCondition(node.conds)
                 q == [p EXCEPT !.node = node, !.ready = status.cond.status]
             IN  IF status.err # ErrNil THEN Return(q, FALSE, ErrNil)
                 ELSE IF status.cond.status \in {ConditionFalse, ConditionUnknown}
                 THEN nodeStatusResolve(q, c, dry)
                 ELSE Return(q, FALSE, ErrNil)

\* every Ready status is investigated
reconcileFetchedAnyReady(k, node, getErr, c, dry) ==
    LET p == [Call(IdlePass, "Get", k) EXCEPT !.getErr = getErr]
    IN  IF getErr # ErrNil
        THEN IF IsNotFound(getErr) THEN Return(p, FALSE, ErrNil)
             ELSE Return(p, FALSE, getErr)
        ELSE LET status == getNodeReadyCondition(node.conds)
                 q == [p EXCEPT !.node = node, !.ready = status.cond.status]
             IN  IF status.err # ErrNil THEN Return(q, FALSE, status.err)
                 ELSE nodeStatusResolve(q, c, dry)

\* Reconcile from the answer of Get to its first provider call
reconcileFetched(k, node, getErr, c, dry) ==
    LET p == [Call(IdlePass, "Get", k) EXCEPT !.getErr = getErr]
    IN  IF getErr # ErrNil
        THEN IF IsNotFound(getErr) THEN Return(p, FALSE, ErrNil)
             ELSE Return(p, FALSE, getErr)
        ELSE LET status == getNodeReadyCondition(node.conds)
                 q == [p EXCEPT !.node = node, !.ready = status.cond.status]
             IN  IF status.err # ErrNil THEN Return(q, FALSE, status.err)
                 ELSE IF status.cond.status \in {ConditionFalse, ConditionUnknown}
                 THEN nodeStatusResolve(q, c, dry)
                 ELSE Return(q, FALSE, ErrNil)

(***************************************************************************)
(* The collaborators.                                                      *)
(***************************************************************************)
\* what client.Get may return for key k now: [node, err]
GetAnswers(k) ==
    {IF store[k] = NoNode THEN [node |-> NoNode, err |-> ErrStoreNotFound]
                          ELSE [node |-> store[k], err |-> ErrNil]}
    \cup (IF faults THEN {[node |-> NoNode, err |-> ErrStoreOther]} ELSE {})

\* what client.Delete may return for key k now, and whether the record goes
DeleteAnswers(k) ==
    {IF store[k] = NoNode THEN [gone |-> FALSE, err |-> ErrStoreNotFound]
                          ELSE [gone |-> TRUE, err |-> ErrNil]}
    \cup (IF faults THEN {[gone |-> FALSE, err |-> ErrStoreOther]} ELSE {})

FaultyAnswers ==
    IF faults THEN {Resp(b, e) : b \in BOOLEAN, e \in CloudErrors} ELSE {}

ExistsAnswers(k) == {Resp(instance[k] # "Gone", ErrNil)} \cup FaultyAnswers

ShutdownAnswers(k) == {Resp(instance[k] = "Shutdown", ErrNil)} \cup FaultyAnswers

\* the scheduler redelivers a key whose pass asked for it or ended in an error
Redeliver(p) == p.pc = "done" /\ (p.result.Requeue \/ p.result.err # ErrNil)

Requeue(q, k, p) == IF Redeliver(p) THEN q \cup {k} ELSE q

InFlight(k) == pass[k].pc \notin {"idle", "done"}

(***************************************************************************)
(* Actions of a pass.                                                      *)
(***************************************************************************)
\* the scheduler hands key k to the only worker; Reconcile runs up to its
\* first provider call
\* variant of Reconcile: the classification of the previous pass over the
\* key is kept and used again instead of asking the provider
ReconcileCached(k) ==
    /\ k \in queue
    /\ \A j \in Names : ~InFlight(j)
    /\ \E a \in GetAnswers(k) :
         \E p \in {IF a.err = ErrNil /\ pass[k].classified
                        /\ pass[k].status # providerNodeStatusUnknown
                    THEN reconcileNode(
                           [Call(IdlePass, "Get", k) EXCEPT !.node = a.node],
                           pass[k].status, ErrNil, dryRun)
                    ELSE reconcileFetched(k, a.node, a.err, cloud, dryRun)} :
             /\ pass' = [j \in Names |-> IF j = k THEN p ELSE IdlePass]
             /\ queue' = Requeue(queue \ {k}, k, p)
    /\ passes' = IF pass' = pass /\ queue' = queue THEN 1 - passes ELSE 0
    /\ UNCHANGED << dryRun, cloud, store, instance, faults, registered, envSteps >>

\* variant of Reconcile: the identifier derived for a record that has none
\* is written into the record
ReconcileRecordsID(k) ==
    /\ k \in queue
    /\ \A j \in Names : ~InFlight(j)
    /\ \E a \in GetAnswers(k) :
         \E p \in {reconcileFetched(k, a.node, a.err, cloud, dryRun)} :
             /\ pass' = [j \in Names |-> IF j = k THEN p ELSE IdlePass]
             /\ queue' = Requeue(queue \ {k}, k, p)
             /\ store' = IF store[k] # NoNode /\ p.providerID # EmptyString
                         THEN [store EXCEPT ![k].providerID = p.providerID]
                         ELSE store
    /\ passes' = IF pass' = pass /\ queue' = queue THEN 1 - passes ELSE 0
    /\ UNCHANGED << dryRun, cloud, instance, faults, registered, envSteps >>

Reconcile(k) ==
    /\ k \in queue
    /\ \A j \in Names : ~InFlight(j)
    /\ \E a \in GetAnswers(k) :
         \E p \in {reconcileFetched(k, a.node, a.err, cloud, dryRun)} :
             /\ pass' = [j \in Names |-> IF j = k THEN p ELSE IdlePass]
             /\ queue' = Requeue(queue \ {k}, k, p)
    /\ passes' = IF pass' = pass /\ queue' = queue THEN 1 - passes ELSE 0
    /\ UNCHANGED << dryRun, cloud, store, instance, faults, registered, envSteps >>

InstanceExistsByProviderID(k) ==
    /\ pass[k].pc = "exists"
    /\ \E resp \in ExistsAnswers(k) :
         \E p \in {nodeStatusExists(
                      Call(pass[k], "InstanceExistsByProviderID", pass[k].providerID),
                      resp, dryRun)} :
             /\ pass' = [pass EXCEPT ![k] = p]
             /\ queue' = Requeue(queue, k, p)
    /\ UNCHANGED << dryRun, cloud, store, instance, faults, registered, passes, envSteps >>

InstanceShutdownByProviderID(k) ==
    /\ pass[k].pc = "shutdown"
    /\ \E resp \in ShutdownAnswers(k) :
         \E p \in {nodeStatusShutdown(
                      Call(pass[k], "InstanceShutdownByProviderID", pass[k].providerID),
                      resp, dryRun)} :
             /\ pass' = [pass EXCEPT ![k] = p]
             /\ queue' = Requeue(queue, k, p)
    /\ UNCHANGED << dryRun, cloud, store, instance, faults, registered, passes, envSteps >>

\* client.Delete of the fetched node: by name; the watch reports the removal
Delete(k) ==
    /\ pass[k].pc = "delete"
    /\ \E a \in DeleteAnswers(pass[k].node.name) :
         \E p \in {reconcileNodeDeleted(
                      Call(pass[k], "Delete", pass[k].node.name), a.err)} :
             /\ pass' = [pass EXCEPT ![k] = p]
             /\ store' = IF a.gone THEN [store EXCEPT ![pass[k].node.name] = NoNode]
                         ELSE store
             /\ queue' = Requeue(IF a.gone THEN queue \cup {k} ELSE queue, k, p)
    /\ UNCHANGED << dryRun, cloud, instance, faults, registered, passes, envSteps >>

(***************************************************************************)
(* Actions of the environment.  A change of a record puts its key on the   *)
(* queue (the watch).                                                      *)
(***************************************************************************)
EnvStep == envSteps < MaxEnvSteps /\ envSteps' = envSteps + 1

\* the kubelet or the node controller rewrites the conditions of a record
NodeStatusUpdate(k) ==
    /\ EnvStep
    /\ store[k] # NoNode
    /\ \E conds \in CondLists \ {store[k].conds} :
         store' = [store EXCEPT ![k].conds = conds]
    /\ queue' = queue \cup {k}
    /\ UNCHANGED << dryRun, cloud, instance, faults, pass, registered, passes >>

\* another actor removes a record
NodeRemoved(k) ==
    /\ EnvStep
    /\ store[k] # NoNode
    /\ store' = [store EXCEPT ![k] = NoNode]
    /\ queue' = queue \cup {k}
    /\ UNCHANGED << dryRun, cloud, instance, faults, pass, registered, passes >>

\* a node registers under a name that has no record: a new record, new UID
NodeRegistered(k) ==
    /\ EnvStep
    /\ store[k] = NoNode
    /\ registered[k] < MaxUid
    /\ registered' = [registered EXCEPT ![k] = @ + 1]
    /\ \E id \in ProviderIDs, conds \in CondLists :
         store' = [store EXCEPT ![k] = Node(k, id, conds, registered[k] + 1)]
    /\ queue' = queue \cup {k}
    /\ UNCHANGED << dryRun, cloud, instance, faults, pass, passes >>

\* the instance behind a node is stopped, terminated or started again (the
\* instance of a name that has no record and no pass is of no interest)
InstanceChange(k) ==
    /\ EnvStep
    /\ store[k] # NoNode \/ InFlight(k)
    /\ \E st \in {"Running", "Shutdown", "Gone"} \ {instance[k]} :
         instance' = [instance EXCEPT ![k] = st]
    /\ UNCHANGED << dryRun, cloud, store, faults, queue, pass, registered, passes >>

\* an outage of the provider's or the store's API begins or ends
FaultsChange ==
    /\ EnvStep
    /\ faults' = ~faults
    /\ UNCHANGED << dryRun, cloud, store, instance, queue, pass, registered, passes >>

Next ==
    \/ \E k \in Names : Reconcile(k)
    \/ \E k \in Names : InstanceExistsByProviderID(k)
    \/ \E k \in Names : InstanceShutdownByProviderID(k)
    \/ \E k \in Names : Delete(k)
    \/ \E k \in Names : NodeStatusUpdate(k)
    \/ \E k \in Names : NodeRemoved(k)
    \/ \E k \in Names : NodeRegistered(k)
    \/ \E k \in Names : InstanceChange(k)
    \/ FaultsChange

Spec == Init /\ [][Next]_vars

\* The worker does not stop: a key on the queue is handed to it when it is
\* free, and a call that a pass waits for returns.
Engine ==
    \E k \in Names :
        \/ Reconcile(k)
        \/ InstanceExistsByProviderID(k)
        \/ InstanceShutdownByProviderID(k)
        \/ Delete(k)

Fairness == WF_vars(Engine)

\* The setting of the liveness claim: dry run is off, one node is there and
\* not Ready, and no other actor removes or registers records; the provider
\* and the conditions of the record still change.
LiveInit ==
    /\ Init
    /\ ~dryRun
    /\ \A k \in Names :
         store[k] # NoNode
            => getNodeReadyCondition(store[k].conds).cond.status
                   \in {ConditionFalse, ConditionUnknown}

LiveNext ==
    \/ \E k \in Names : Reconcile(k)
    \/ \E k \in Names : InstanceExistsByProviderID(k)
    \/ \E k \in Names : InstanceShutdownByProviderID(k)
    \/ \E k \in Names : Delete(k)
    \/ \E k \in Names : NodeStatusUpdate(k)
    \/ \E k \in Names : InstanceChange(k)
    \/ FaultsChange

LiveSpec == LiveInit /\ [][LiveNext]_vars /\ Fairness

(***************************************************************************)
(* The resolver on its own: one of its functions is applied to one node    *)
(* under one cloud context.  The node is the only record of the store; the *)
(* pass record holds the function applied (calls, with the functions it    *)
(* went through), the identifier (providerID) and the error (statusErr)    *)
(* returned; pc is "panic" when the function faulted.                      *)
(***************************************************************************)
\* all sequences over a set of characters of exactly n characters
SeqsOfLen(chars, n) == [1 .. n -> chars]

\* names over hyphens, "i" and another letter, up to MaxAwsLen characters
AwsNames == UNION {SeqsOfLen({"-", "i", "a"}, n) : n \in 0 .. MaxAwsLen}

\* names of a scale set part (none at all included) followed by six characters
AzureNames ==
    {pre \o suf : pre \in UNION {SeqsOfLen({"v"}, n) : n \in 0 .. MaxPrefixLen},
                  suf \in SeqsOfLen({"0", "1", "9", "a"}, 6)}

ResolverNames == AwsNames \cup AzureNames
ResolverClouds == Clouds \cup {AzureStandardCloud, VsphereCloud, FakeAwsCloud}

\* the functions getProviderID goes through for a node
getProviderIDCalls(c, node) ==
    IF node.providerID # EmptyString THEN << >>
    ELSE << "generateProviderID" >>
         \o (IF c.name \notin providerIDBuilders THEN << >>
             ELSE IF c.name = "azure" THEN << "azureProviderIDBuilder" >>
             ELSE << "awsProviderIDBuilder" >>)

ResolverInit ==
    /\ dryRun = FALSE
    /\ cloud \in ResolverClouds
    /\ \E name \in ResolverNames, id \in ProviderIDs :
         store = [k \in {name} |-> Node(name, id, << >>, 1)]
    /\ instance = [k \in DOMAIN store |-> "Running"]
    /\ faults = FALSE
    /\ queue = {}
    /\ pass = [k \in DOMAIN store |-> IdlePass]
    /\ registered = [k \in DOMAIN store |-> 1]
    /\ passes = 0
    /\ envSteps = 0

\* the function fn, which went through the functions via, returned r for node k
Resolved(k, fn, via, r) ==
    /\ pass[k].pc = "idle"
    /\ pass' = [pass EXCEPT ![k] =
                  [IdlePass EXCEPT !.pc = "done", !.node = store[k],
                                   !.calls = << fn >> \o via,
                                   !.providerID = r.id, !.statusErr = r.err]]
    /\ UNCHANGED << dryRun, cloud, store, instance, faults, queue, registered,
                    passes, envSteps >>

CallGetProviderID(k) ==
    Resolved(k, "getProviderID", getProviderIDCalls(cloud, store[k]),
             getProviderID(cloud, store[k]))

CallGenerateProviderID(k) ==
    Resolved(k, "generateProviderID", << >>, generateProviderID(cloud, store[k].name))

CallAwsProviderIDBuilder(k) ==
    Resolved(k, "awsProviderIDBuilder", << >>, awsProviderIDBuilder(cloud, store[k].name))

CallAzureProviderIDBuilder(k) ==
    Resolved(k, "azureProviderIDBuilder", << >>,
             azureProviderIDBuilder(cloud, store[k].name))

CallExtractAzureScaleSet(k) ==
    Resolved(k, "extractAzureScaleSet", << >>, extractAzureScaleSet(store[k].name))

\* extractAzureVMID faults on a name of fewer than six characters
CallExtractAzureVMID(k) ==
    IF extractAzureVMIDFaults(store[k].name)
    THEN /\ pass[k].pc = "idle"
         /\ pass' = [pass EXCEPT ![k] =
                       [IdlePass EXCEPT !.pc = "panic", !.node = store[k],
                                        !.calls = << "extractAzureVMID" >>]]
         /\ UNCHANGED << dryRun, cloud, store, instance, faults, queue, registered,
                         passes, envSteps >>
    ELSE Resolved(k, "extractAzureVMID", << >>, extractAzureVMID(store[k].name))

ResolverNext ==
    \/ \E k \in DOMAIN store : CallGetProviderID(k)
    \/ \E k \in DOMAIN store : CallGenerateProviderID(k)
    \/ \E k \in DOMAIN store : CallAwsProviderIDBuilder(k)
    \/ \E k \in DOMAIN store : CallAzureProviderIDBuilder(k)
    \/ \E k \in DOMAIN store : CallExtractAzureScaleSet(k)
    \/ \E k \in DOMAIN store : CallExtractAzureVMID(k)

ResolverSpec == ResolverInit /\ [][ResolverNext]_vars

(***************************************************************************)
(* The earlier reconciler, NodeReconciler of controllers/node_controller.go.*)
(* It has no cloud context: the identifier of a node without one is built  *)
(* from the node name before the Ready condition is looked at, both        *)
(* provider queries are always made, and the error of Delete is dropped.   *)
(* A pass whose pc is "panic" ended in a run-time fault of the process.    *)
(***************************************************************************)
\* "a-b": hyphen segments, the one before the last not "i"
NameSkip == << "a", "-", "b" >>
LegacyNames == Names \cup {NameSkip}

\* the legacy reconciler is not given a cloudprovider.Interface
NoCloud == Cloud("", "", << >>, << >>, << >>)

\* the fallback for a node without providerID: maybeID[len(maybeID)-2]
\* faults when the name has no hyphen
legacyFallback(name) ==
    LET maybeID == Split(name)
    IN  IF Len(maybeID) < 2
        THEN [outcome |-> "panic", id |-> EmptyString]
        ELSE IF maybeID[Len(maybeID) - 1] = << "i" >>
        THEN [outcome |-> "built", id |-> << "aws:///i-" >> \o maybeID[Len(maybeID)]]
        ELSE [outcome |-> "skip", id |-> EmptyString]

\* the events of the legacy reconciler say why the node is deleted
LegacyEvent(node, why) ==
    [type |-> EventTypeNormal, reason |-> deleteNodeEvent, name |-> node.name,
     uid |-> node.uid, status |-> why]

\* Reconcile from the Ready condition to its first provider call
legacyReady(p) ==
    LET status == getNodeReadyCondition(p.node.conds)
        q == [p EXCEPT !.ready = status.cond.status]
    IN  IF status.err # ErrNil THEN Return(q, FALSE, status.err)
        ELSE IF status.cond.status \in {ConditionFalse, ConditionUnknown}
        THEN [q EXCEPT !.pc = "exists"]
        ELSE Return(q, FALSE, ErrNil)

\* Reconcile from the answer of Get to its first provider call
legacyFetched(k, node, getErr) ==
    LET p == [Call(IdlePass, "Get", k) EXCEPT !.getErr = getErr]
    IN  IF getErr # ErrNil
        THEN IF IsNotFound(getErr) THEN Return(p, FALSE, ErrNil)
             ELSE Return(p, FALSE, getErr)
        ELSE LET q == [p EXCEPT !.node = node]
             IN  IF node.providerID # EmptyString
                 THEN legacyReady([q EXCEPT !.providerID = node.providerID])
                 ELSE LET fb == legacyFallback(node.name)
                      IN  IF fb.outcome = "panic" THEN [q EXCEPT !.pc = "panic"]
                          ELSE IF fb.outcome = "skip" THEN Return(q, FALSE, ErrNil)
                          ELSE legacyReady([q EXCEPT !.providerID = fb.id])

\* the answer of InstanceExistsByProviderID is kept, its error is not looked at
legacyExists(p, resp) == [p EXCEPT !.existsResp = resp, !.pc = "shutdown"]

\* Reconcile from the answer of InstanceShutdownByProviderID on: err is the
\* error of this second call only
legacyShutdown(p, resp, dry) ==
    LET q == [p EXCEPT !.shutdownResp = resp]
        nodeExists == p.existsResp.val
        nodeShutdown == resp.val
        shouldDelete == ~nodeExists \/ nodeShutdown
        why == IF ~nodeExists THEN << "does", "not", "exist" >>
               ELSE << "is", "shut", "down" >>
        r == [Call(q, "Event", q.node.name)
              EXCEPT !.events = Append(@, LegacyEvent(q.node, why))]
    IN  IF resp.err # ErrNil THEN Return(q, FALSE, resp.err)
        ELSE IF shouldDelete
        THEN IF ~dry THEN [r EXCEPT !.pc = "delete"] ELSE Return(r, FALSE, ErrNil)
        ELSE Return(q, TRUE, ErrNil)

\* the error of Delete is logged and not returned
legacyDeleted(p, err) == Return([p EXCEPT !.deleteErr = err], FALSE, ErrNil)

LegacyInit ==
    /\ dryRun \in BOOLEAN
    /\ cloud = NoCloud
    /\ \E k \in LegacyNames, id \in ProviderIDs, conds \in CondLists :
         store = [j \in LegacyNames |-> IF j = k THEN Node(k, id, conds, 1) ELSE NoNode]
    /\ instance = [k \in LegacyNames |-> "Running"]
    /\ faults = FALSE
    /\ queue = {k \in LegacyNames : store[k] # NoNode}
    /\ pass = [k \in LegacyNames |-> IdlePass]
    /\ registered = [k \in LegacyNames |-> IF store[k] = NoNode THEN 0 ELSE 1]
    /\ passes = 0
    /\ envSteps = 0

\* a pass of the legacy reconciler up to its first provider call; after a
\* run-time fault the process is gone
LegacyReconcile(k) ==
    /\ k \in queue
    /\ \A j \in LegacyNames : pass[j].pc \in {"idle", "done"}
    /\ \E a \in GetAnswers(k) :
         \E p \in {legacyFetched(k, a.node, a.err)} :
             /\ pass' = [j \in LegacyNames |-> IF j = k THEN p ELSE IdlePass]
             /\ queue' = Requeue(queue \ {k}, k, p)
    /\ passes' = IF pass' = pass /\ queue' = queue THEN 1 - passes ELSE 0
    /\ UNCHANGED << dryRun, cloud, store, instance, faults, registered, envSteps >>

LegacyInstanceExistsByProviderID(k) ==
    /\ pass[k].pc = "exists"
    /\ \E resp \in ExistsAnswers(k) :
         pass' = [pass EXCEPT ![k] = legacyExists(
                     Call(pass[k], "InstanceExistsByProviderID", pass[k].providerID),
                     resp)]
    /\ UNCHANGED << dryRun, cloud, store, instance, faults, queue, registered,
                    passes, envSteps >>

LegacyInstanceShutdownByProviderID(k) ==
    /\ pass[k].pc = "shutdown"
    /\ \E resp \in ShutdownAnswers(k) :
         \E p \in {legacyShutdown(
                      Call(pass[k], "InstanceShutdownByProviderID", pass[k].providerID),
                      resp, dryRun)} :
             /\ pass' = [pass EXCEPT ![k] = p]
             /\ queue' = Requeue(queue, k, p)
    /\ UNCHANGED << dryRun, cloud, store, instance, faults, registered, passes, envSteps >>

LegacyDelete(k) ==
    /\ pass[k].pc = "delete"
    /\ \E a \in DeleteAnswers(pass[k].node.name) :
         \E p \in {legacyDeleted(
                      Call(pass[k], "Delete", pass[k].node.name), a.err)} :
             /\ pass' = [pass EXCEPT ![k] = p]
             /\ store' = IF a.gone THEN [store EXCEPT ![pass[k].node.name] = NoNode]
                         ELSE store
             /\ queue' = Requeue(IF a.gone THEN queue \cup {k} ELSE queue, k, p)
    /\ UNCHANGED << dryRun, cloud, instance, faults, registered, passes, envSteps >>

LegacyNext ==
    \/ \E k \in LegacyNames : LegacyReconcile(k)
    \/ \E k \in LegacyNames : LegacyInstanceExistsByProviderID(k)
    \/ \E k \in LegacyNames : LegacyInstanceShutdownByProviderID(k)
    \/ \E k \in LegacyNames : LegacyDelete(k)
    \/ \E k \in LegacyNames : NodeStatusUpdate(k)
    \/ \E k \in LegacyNames : NodeRemoved(k)
    \/ \E k \in LegacyNames : InstanceChange(k)
    \/ FaultsChange

LegacySpec == LegacyInit /\ [][LegacyNext]_vars

(***************************************************************************)
(* The first NodeReconciler: Reconcile does everything itself, looks only  *)
(* at nodes that have a providerID, and always returns the empty result    *)
(* with a nil error once the record is fetched.                            *)
(***************************************************************************)
\* Reconcile from the answer of Get to its first provider call: the error of
\* getNodeReadyCondition is logged and the zero condition goes into the
\* switch; case ConditionFalse has an empty body and a Go case does not fall
\* through into the next one
firstFetched(k, node, getErr) ==
    LET p == [Call(IdlePass, "Get", k) EXCEPT !.getErr = getErr]
    IN  IF getErr # ErrNil
        THEN IF IsNotFound(getErr) THEN Return(p, FALSE, ErrNil)
             ELSE Return(p, FALSE, getErr)
        ELSE LET q == [p EXCEPT !.node = node]
             IN  IF node.providerID = EmptyString THEN Return(q, FALSE, ErrNil)
                 ELSE LET status == getNodeReadyCondition(node.conds)
                          r == [q EXCEPT !.ready = status.cond.status]
                      IN  IF status.cond.status = ConditionFalse
                          THEN Return(r, FALSE, ErrNil)
                          ELSE IF status.cond.status = ConditionUnknown
                          THEN [r EXCEPT !.pc = "exists",
                                         !.providerID = node.providerID]
                          ELSE Return(r, FALSE, ErrNil)

\* the answer of InstanceExistsByProviderID is kept, its error is overwritten
\* by that of the next call
firstExists(p, resp) == [p EXCEPT !.existsResp = resp, !.pc = "shutdown"]

\* Reconcile from the answer of InstanceShutdownByProviderID on: the error is
\* logged; one event when the instance does not exist, one when it is shut
\* down
firstShutdown(p, resp, dry) ==
    LET q == [p EXCEPT !.shutdownResp = resp]
        nodeExists == p.existsResp.val
        nodeShutdown == resp.val
        shouldDelete == ~nodeExists \/ nodeShutdown
        e1 == IF ~nodeExists
              THEN [Call(q, "Event", q.node.name) EXCEPT !.events =
                       Append(@, LegacyEvent(q.node, << "does", "not", "exist" >>))]
              ELSE q
        e2 == IF nodeShutdown
              THEN [Call(e1, "Event", q.node.name) EXCEPT !.events =
                       Append(@, LegacyEvent(q.node, << "is", "shut", "down" >>))]
              ELSE e1
    IN  IF shouldDelete /\ ~dry THEN [e2 EXCEPT !.pc = "delete"]
        ELSE Return(e2, FALSE, ErrNil)

\* the error of Delete is logged and not returned
firstDeleted(p, err) == Return([p EXCEPT !.deleteErr = err], FALSE, ErrNil)

FirstInit ==
    /\ dryRun \in BOOLEAN
    /\ cloud = NoCloud
    /\ \E k \in Names, id \in ProviderIDs, conds \in CondLists :
         store = [j \in Names |-> IF j = k THEN Node(k, id, conds, 1) ELSE NoNode]
    /\ instance = [k \in Names |-> "Running"]
    /\ faults = FALSE
    /\ queue = {k \in Names : store[k] # NoNode}
    /\ pass = [k \in Names |-> IdlePass]
    /\ registered = [k \in Names |-> IF store[k] = NoNode THEN 0 ELSE 1]
    /\ passes = 0
    /\ envSteps = 0

FirstReconcile(k) ==
    /\ k \in queue
    /\ \A j \in Names : ~InFlight(j)
    /\ \E a \in GetAnswers(k) :
         \E p \in {firstFetched(k, a.node, a.err)} :
             /\ pass' = [j \in Names |-> IF j = k THEN p ELSE IdlePass]
             /\ queue' = Requeue(queue \ {k}, k, p)
    /\ passes' = IF pass' = pass /\ queue' = queue THEN 1 - passes ELSE 0
    /\ UNCHANGED << dryRun, cloud, store, instance, faults, registered, envSteps >>

FirstInstanceExistsByProviderID(k) ==
    /\ pass[k].pc = "exists"
    /\ \E resp \in ExistsAnswers(k) :
         pass' = [pass EXCEPT ![k] = firstExists(
                     Call(pass[k], "InstanceExistsByProviderID", pass[k].providerID),
                     resp)]
    /\ UNCHANGED << dryRun, cloud, store, instance, faults, queue, registered,
                    passes, envSteps >>

FirstInstanceShutdownByProviderID(k) ==
    /\ pass[k].pc = "shutdown"
    /\ \E resp \in ShutdownAnswers(k) :
         \E p \in {firstShutdown(
                      Call(pass[k], "InstanceShutdownByProviderID", pass[k].providerID),
                      resp, dryRun)} :
             /\ pass' = [pass EXCEPT ![k] = p]
             /\ queue' = Requeue(queue, k, p)
    /\ UNCHANGED << dryRun, cloud, store, instance, faults, registered, passes, envSteps >>

FirstDelete(k) ==
    /\ pass[k].pc = "delete"
    /\ \E a \in DeleteAnswers(pass[k].node.name) :
         \E p \in {firstDeleted(
                      Call(pass[k], "Delete", pass[k].node.name), a.err)} :
             /\ pass' = [pass EXCEPT ![k] = p]
             /\ store' = IF a.gone THEN [store EXCEPT ![pass[k].node.name] = NoNode]
                         ELSE store
             /\ queue' = Requeue(IF a.gone THEN queue \cup {k} ELSE queue, k, p)
    /\ UNCHANGED << dryRun, cloud, instance, faults, registered, passes, envSteps >>

FirstNext ==
    \/ \E k \in Names : FirstReconcile(k)
    \/ \E k \in Names : FirstInstanceExistsByProviderID(k)
    \/ \E k \in Names : FirstInstanceShutdownByProviderID(k)
    \/ \E k \in Names : FirstDelete(k)
    \/ \E k \in Names : NodeStatusUpdate(k)
    \/ \E k \in Names : NodeRemoved(k)
    \/ \E k \in Names : InstanceChange(k)
    \/ FaultsChange

FirstSpec == FirstInit /\ [][FirstNext]_vars

(***************************************************************************)
(* Two workers.  The controller is built without options, so it runs one   *)
(* worker; with more workers the work queue still hands a key to one       *)
(* worker at a time, and Reconcile calls for different keys interleave at  *)
(* their calls to the store and the provider.  Both nodes have a record;   *)
(* the instances and the outage are as they are when the passes begin.     *)
(***************************************************************************)
ParallelClouds == {AwsCloud, AzureVmssCloud}

ParallelInit ==
    /\ dryRun \in BOOLEAN
    /\ cloud \in ParallelClouds
    /\ \E id \in [Names -> ProviderIDs], conds \in [Names -> CondLists] :
         store = [k \in Names |-> Node(k, id[k], conds[k], 1)]
    /\ instance \in [Names -> {"Running", "Shutdown", "Gone"}]
    /\ faults \in BOOLEAN
    /\ queue = Names
    /\ pass = [k \in Names |-> IdlePass]
    /\ registered = [k \in Names |-> 1]
    /\ passes = 0
    /\ envSteps = 0

\* variant of ParallelReconcile: the reconciler keeps the node it works on
\* in a field, which a pass started meanwhile for another key overwrites
ParallelReconcileSharedNode(k) ==
    /\ k \in queue
    /\ ~InFlight(k)
    /\ \E a \in GetAnswers(k) :
         \E p \in {reconcileFetched(k, a.node, a.err, cloud, dryRun)} :
             /\ pass' = [j \in Names |->
                            IF j = k THEN p
                            ELSE IF InFlight(j) /\ a.err = ErrNil
                            THEN [pass[j] EXCEPT !.node = a.node]
                            ELSE pass[j]]
             /\ queue' = Requeue(queue \ {k}, k, p)
    /\ UNCHANGED << dryRun, cloud, store, instance, faults, registered, passes,
                    envSteps >>

\* a worker takes key k, which no other worker is working on, and runs
\* Reconcile up to its first provider call
ParallelReconcile(k) ==
    /\ k \in queue
    /\ ~InFlight(k)
    /\ \E a \in GetAnswers(k) :
         \E p \in {reconcileFetched(k, a.node, a.err, cloud, dryRun)} :
             /\ pass' = [pass EXCEPT ![k] = p]
             /\ queue' = Requeue(queue \ {k}, k, p)
    /\ UNCHANGED << dryRun, cloud, store, instance, faults, registered, passes,
                    envSteps >>

ParallelNext ==
    \/ \E k \in Names : ParallelReconcile(k)
    \/ \E k \in Names : InstanceExistsByProviderID(k)
    \/ \E k \in Names : InstanceShutdownByProviderID(k)
    \/ \E k \in Names : Delete(k)

ParallelSpec == ParallelInit /\ [][ParallelNext]_vars

(***************************************************************************)
(* What a finished pass did.                                               *)
(***************************************************************************)
Done(p) == p.pc = "done"

\* how many calls of an operation the pass has made
Count(p, op) == Cardinality({i \in DOMAIN p.calls : p.calls[i].op = op})

Called(p, op) == Count(p, op) > 0

\* the reconciliation outcome of a finished pass
Outcome(p) ==
    IF p.result.err # ErrNil THEN "Failed"
    ELSE IF p.result.Requeue THEN "Requeued"
    ELSE IF Called(p, "Delete") THEN "Deleted"
    ELSE IF Called(p, "Event") THEN "DryRunSkipped"
    ELSE "Ignored"

NotReady(status) == status \in {ConditionFalse, ConditionUnknown}

StoreCalls(p) == Count(p, "Get") + Count(p, "Delete")

ProviderCalls(p) ==
    Count(p, "InstanceExistsByProviderID") + Count(p, "InstanceShutdownByProviderID")

\* the pass has reached the deletion decision with this classification
Classified(p, status) == p.classified /\ p.status = status

(***************************************************************************)
(* Claims.                                                                 *)
(***************************************************************************)

\* C1: a pass issues (or is about to issue) a Delete only if the Ready
\* condition of the record it fetched was False or Unknown and the classifier
\* returned NotFound or Shutdown in that pass.
C1_DeleteOnlyOnConfirmedStatus ==
    \A k \in Names :
        (Called(pass[k], "Delete") \/ pass[k].pc = "delete")
            => /\ pass[k].ready = getNodeReadyCondition(pass[k].node.conds).cond.status
               /\ NotReady(pass[k].ready)
               /\ pass[k].classified
               /\ pass[k].status \in {providerNodeStatusNotFound, providerNodeStatusShutdown}
               /\ Called(pass[k], "InstanceExistsByProviderID")

C1_Witness ==
    \E k \in Names :
        /\ Done(pass[k]) /\ Called(pass[k], "Delete")
        /\ pass[k].status = providerNodeStatusShutdown

C3_Original ==
    \A k \in Names :
        (Done(pass[k]) /\ pass[k].ready = ConditionFalse
            /\ Classified(pass[k], providerNodeStatusNotFound) /\ ~dryRun)
            => /\ Outcome(pass[k]) = "Deleted"
               /\ Count(pass[k], "Delete") = 1
               /\ Len(pass[k].events) = 1
               /\ pass[k].events[1].type = EventTypeNormal
               /\ pass[k].events[1].reason = deleteNodeEvent

\* C3 as amended: Ready=False, classification NotFound, no dry run: exactly
\* one Delete call is issued and exactly one Normal event of reason
\* DeletingNode is emitted; the outcome is Deleted when the Delete call
\* succeeds, and Failed with the error of the Delete call when it fails.
C3_DeletedUnlessDeleteFails ==
    \A k \in Names :
        (Done(pass[k]) /\ pass[k].ready = ConditionFalse
            /\ Classified(pass[k], providerNodeStatusNotFound) /\ ~dryRun)
            => /\ Count(pass[k], "Delete") = 1
               /\ Len(pass[k].events) = 1
               /\ pass[k].events[1].type = EventTypeNormal
               /\ pass[k].events[1].reason = deleteNodeEvent
               /\ pass[k].result = Result(FALSE, pass[k].deleteErr)
               /\ Outcome(pass[k]) =
                      IF pass[k].deleteErr = ErrNil THEN "Deleted" ELSE "Failed"

C3_Witness ==
    \E k \in Names :
        /\ Done(pass[k]) /\ pass[k].ready = ConditionFalse
        /\ Classified(pass[k], providerNodeStatusNotFound) /\ ~dryRun
        /\ Outcome(pass[k]) = "Deleted"
        /\ store[k] = NoNode

\* C4: Ready=False, classification NotFound, dry run: the outcome is
\* DryRunSkipped (empty result, nil error), no Delete call is issued and the
\* DeletingNode event is still emitted.
C4_DryRunSkipped ==
    \A k \in Names :
        (Done(pass[k]) /\ pass[k].ready = ConditionFalse
            /\ Classified(pass[k], providerNodeStatusNotFound) /\ dryRun)
            => /\ pass[k].result = Result(FALSE, ErrNil)
               /\ Outcome(pass[k]) = "DryRunSkipped"
               /\ Count(pass[k], "Delete") = 0
               /\ Len(pass[k].events) = 1
               /\ pass[k].events[1].reason = deleteNodeEvent

C4_Witness ==
    \E k \in Names :
        /\ Done(pass[k]) /\ pass[k].ready = ConditionFalse
        /\ Classified(pass[k], providerNodeStatusNotFound) /\ dryRun
        /\ store[k] # NoNode

\* C5: with dry run on, no step of the engine issues a Delete or changes the
\* cluster store (only the environment changes it).
C5_DryRunNeverDeletes ==
    [][(dryRun /\ pass' # pass)
           => /\ store' = store
              /\ \A k \in Names : ~Called(pass'[k], "Delete") /\ pass'[k].pc # "delete"]_vars

C5_Witness ==
    \E k \in Names :
        /\ dryRun /\ Done(pass[k])
        /\ Classified(pass[k], providerNodeStatusShutdown)
        /\ pass[k].ready = ConditionUnknown

\* C6: Ready=Unknown or False with classification Unknown: the outcome is
\* Requeued (Requeue=true, nil error), no Delete call occurs and no event is
\* emitted.
C6_UnknownRequeued ==
    \A k \in Names :
        (Done(pass[k]) /\ NotReady(pass[k].ready)
            /\ Classified(pass[k], providerNodeStatusUnknown))
            => /\ pass[k].result = Result(TRUE, ErrNil)
               /\ Outcome(pass[k]) = "Requeued"
               /\ Count(pass[k], "Delete") = 0
               /\ pass[k].events = << >>
               /\ k \in queue

C6_Witness ==
    \E k \in Names :
        /\ Done(pass[k]) /\ pass[k].ready = ConditionUnknown
        /\ Classified(pass[k], providerNodeStatusUnknown)
        /\ pass[k].statusErr # ErrNil
        /\ Called(pass[k], "InstanceShutdownByProviderID")

\* C7: when the provider reports the instance as existing, the pass never
\* classifies it NotFound; when it also reports it as not shut down (or is not
\* asked), the classification is Unknown and the pass emits no event and
\* issues no Delete, whatever the Ready condition.
C7_ExistingNotShutdownNeverDeleted ==
    \A k \in Names :
        (Called(pass[k], "InstanceExistsByProviderID") /\ pass[k].existsResp.val)
            => /\ pass[k].classified => pass[k].status # providerNodeStatusNotFound
               /\ (Called(pass[k], "InstanceShutdownByProviderID")
                       => ~pass[k].shutdownResp.val)
                    => /\ pass[k].classified => pass[k].status = providerNodeStatusUnknown
                       /\ ~Called(pass[k], "Delete")
                       /\ pass[k].pc # "delete"
                       /\ pass[k].events = << >>

C7_Witness ==
    \E k \in Names :
        /\ Done(pass[k])
        /\ pass[k].existsResp = Resp(TRUE, ErrCloudNotFoundShaped)
        /\ Called(pass[k], "InstanceShutdownByProviderID")
        /\ pass[k].shutdownResp = Resp(FALSE, ErrCloudNotFoundShaped)
        /\ store[k] # NoNode

\* C9: when the existence query returns false, the shutdown query is never
\* made in that pass, and when it returns false cleanly (no error) the
\* classification is NotFound, with no error attached.
C9_NotExistsSkipsShutdown ==
    \A k \in Names :
        (Called(pass[k], "InstanceExistsByProviderID") /\ ~pass[k].existsResp.val)
            => /\ ~Called(pass[k], "InstanceShutdownByProviderID")
               /\ pass[k].pc # "shutdown"
               /\ pass[k].existsResp.err = ErrNil
                    => /\ Classified(pass[k], providerNodeStatusNotFound)
                       /\ pass[k].statusErr = ErrNil

C9_Witness ==
    \E k \in Names :
        /\ Done(pass[k])
        /\ pass[k].existsResp = Resp(FALSE, ErrNil)
        /\ pass[k].calls[Len(pass[k].calls)].op = "Delete"
        /\ instance[k] = "Shutdown"

\* C10 as stated: when the existence query fails with an error whose message
\* contains "does not exist", the pass goes on to the shutdown query.
C10_Original ==
    \A k \in Names :
        (Done(pass[k]) /\ Called(pass[k], "InstanceExistsByProviderID")
            /\ pass[k].existsResp.err = ErrCloudNotFoundShaped)
            => Called(pass[k], "InstanceShutdownByProviderID")

\* C10 as amended: when the existence query fails with an error whose message
\* contains "does not exist", the error is dropped and the flag returned with
\* it decides as if there had been no error: if the flag is false the
\* classification is NotFound at once, without a shutdown query; if it is true
\* the pass goes on to the shutdown query.  The error is never returned.
C10_ToleratedErrorIsDropped ==
    \A k \in Names :
        (Done(pass[k]) /\ Called(pass[k], "InstanceExistsByProviderID")
            /\ pass[k].existsResp.err = ErrCloudNotFoundShaped)
            => /\ pass[k].statusErr # ErrCloudNotFoundShaped
               /\ pass[k].result.err # ErrCloudNotFoundShaped
               /\ ~pass[k].existsResp.val
                    => /\ Classified(pass[k], providerNodeStatusNotFound)
                       /\ pass[k].statusErr = ErrNil
                       /\ ~Called(pass[k], "InstanceShutdownByProviderID")
               /\ pass[k].existsResp.val
                    => Called(pass[k], "InstanceShutdownByProviderID")

C10_Witness ==
    \E k \in Names :
        /\ Done(pass[k])
        /\ pass[k].existsResp = Resp(FALSE, ErrCloudNotFoundShaped)
        /\ Classified(pass[k], providerNodeStatusNotFound)
        /\ instance[k] = "Gone"

\* the record of node k is there and its Ready condition is False or Unknown
RecordNotReady(k) ==
    store[k] # NoNode /\ NotReady(getNodeReadyCondition(store[k].conds).cond.status)

\* the provider reports the instance of node k as nonexistent or shut down
InstanceSettled(k) == instance[k] \in {"Gone", "Shutdown"}

\* the record of node k carries an identifier or one can be derived for it
Resolvable(k) == getProviderID(cloud, store[k]).err = ErrNil

\* C8 as stated: if a node stays not-Ready, dry run is off, the provider from
\* some point on reports the instance as nonexistent or shut down, calls
\* succeed from some point on and the scheduler is fair, the record is
\* eventually deleted.
C8_Original ==
    \A k \in Names :
        ( /\ ~dryRun
          /\ store[k] # NoNode
          /\ [](store[k] # NoNode => RecordNotReady(k))
          /\ <>[]InstanceSettled(k)
          /\ <>[](~faults) )
            => <>(store[k] = NoNode)

\* C8 as amended: the same, for a node whose provider identifier is recorded
\* or can be derived from its name under the active provider family.
C8_EventuallyDeleted ==
    \A k \in Names :
        ( /\ ~dryRun
          /\ store[k] # NoNode
          /\ [](store[k] # NoNode => RecordNotReady(k) /\ Resolvable(k))
          /\ <>[]InstanceSettled(k)
          /\ <>[](~faults) )
            => <>(store[k] = NoNode)

\* a pass has deleted the record of a node that was requeued before its
\* instance was gone
C8_Witness ==
    \E k \in Names :
        /\ ~dryRun /\ Done(pass[k]) /\ Outcome(pass[k]) = "Deleted"
        /\ store[k] = NoNode
        /\ InstanceSettled(k) /\ ~faults
        /\ envSteps = MaxEnvSteps

\* the only call of the pass is the Get of key k, and nothing else happened
OnlyFetched(p, k) ==
    /\ p.calls = << [op |-> "Get", arg |-> k] >>
    /\ p.events = << >>
    /\ ~p.classified
    /\ p.providerID = EmptyString

\* C11: when the existence query fails with an error that is not
\* not-found-shaped, the classifier returns Unknown with that error, the
\* shutdown query is not made, and the pass ends Requeued with nil error, no
\* event and no Delete.
C11_HardExistsErrorRequeued ==
    \A k \in Names :
        (Called(pass[k], "InstanceExistsByProviderID")
            /\ pass[k].pc # "exists"
            /\ pass[k].existsResp.err # ErrNil
            /\ ~isAWSNotFoundErr(pass[k].existsResp.err))
            => /\ Done(pass[k])
               /\ Classified(pass[k], providerNodeStatusUnknown)
               /\ pass[k].statusErr = pass[k].existsResp.err
               /\ ~Called(pass[k], "InstanceShutdownByProviderID")
               /\ pass[k].result = Result(TRUE, ErrNil)
               /\ Outcome(pass[k]) = "Requeued"
               /\ pass[k].events = << >>
               /\ ~Called(pass[k], "Delete")

\* the existence query of a pass failed hard although the instance is gone
C11_Witness ==
    \E k \in Names :
        /\ Done(pass[k])
        /\ pass[k].existsResp.err = ErrCloudNoAnswer
        /\ Outcome(pass[k]) = "Requeued"
        /\ instance[k] = "Gone"

\* C12: when the instance exists (the shutdown query was made), the
\* classification is Shutdown exactly when the shutdown query reports true
\* without a non-tolerated error; otherwise it is Unknown, with the error
\* attached when the shutdown query failed with a non-tolerated error and
\* without an error otherwise.  A tolerated error counts as no error.
C12_ShutdownIffReportedTrue ==
    \A k \in Names :
        (Called(pass[k], "InstanceShutdownByProviderID") /\ pass[k].pc # "shutdown")
            => LET resp == pass[k].shutdownResp
                   hard == resp.err # ErrNil /\ ~isAWSNotFoundErr(resp.err)
               IN  /\ pass[k].classified
                   /\ pass[k].existsResp.val
                   /\ pass[k].status = providerNodeStatusShutdown <=> (resp.val /\ ~hard)
                   /\ pass[k].status # providerNodeStatusShutdown
                        => pass[k].status = providerNodeStatusUnknown
                   /\ pass[k].statusErr = (IF hard THEN resp.err ELSE ErrNil)

\* a shutdown query answered true beside a tolerated error classified Shutdown
C12_Witness ==
    \E k \in Names :
        /\ pass[k].shutdownResp = Resp(TRUE, ErrCloudNotFoundShaped)
        /\ Classified(pass[k], providerNodeStatusShutdown)
        /\ Called(pass[k], "InstanceShutdownByProviderID")

\* C13: if the record is missing at the Get (the store answers not found), the
\* pass is Ignored: empty result, nil error, no requeue, no identifier
\* resolution, no provider call, no event, no Delete.
C13_MissingRecordIgnored ==
    \A k \in Names :
        (pass[k].pc # "idle" /\ pass[k].getErr = ErrStoreNotFound)
            => /\ Done(pass[k])
               /\ pass[k].result = Result(FALSE, ErrNil)
               /\ Outcome(pass[k]) = "Ignored"
               /\ OnlyFetched(pass[k], k)
               /\ ProviderCalls(pass[k]) = 0
               /\ ~Called(pass[k], "Delete")

\* a pass found the record of its key missing
C13_Witness ==
    \E k \in Names :
        /\ Done(pass[k])
        /\ pass[k].getErr = ErrStoreNotFound
        /\ store[k] = NoNode
        /\ Outcome(pass[k]) = "Ignored"

\* C15: a read error of the store at the Get other than not found is fatal to
\* the pass: the same error is returned with the Requeue flag unset, and no
\* provider call, event or Delete occurs.
C15_FetchErrorReturned ==
    \A k \in Names :
        (pass[k].pc # "idle" /\ pass[k].getErr # ErrNil /\ ~IsNotFound(pass[k].getErr))
            => /\ Done(pass[k])
               /\ pass[k].result = Result(FALSE, pass[k].getErr)
               /\ Outcome(pass[k]) = "Failed"
               /\ OnlyFetched(pass[k], k)
               /\ ProviderCalls(pass[k]) = 0
               /\ ~Called(pass[k], "Delete")

\* a pass whose Get failed although the record is there
C15_Witness ==
    \E k \in Names :
        /\ Done(pass[k])
        /\ pass[k].getErr = ErrStoreOther
        /\ pass[k].result.err = ErrStoreOther
        /\ store[k] # NoNode

\* C17: when the Delete call fails, also because the record disappeared
\* meanwhile, the pass returns the error of the Delete with Requeue unset
\* (Failed), and no pass issues more than one Delete.
C17_DeleteErrorReturnedOnce ==
    \A k \in Names :
        /\ Count(pass[k], "Delete") <= 1
        /\ (Called(pass[k], "Delete") /\ pass[k].deleteErr # ErrNil)
            => /\ Done(pass[k])
               /\ pass[k].result = Result(FALSE, pass[k].deleteErr)
               /\ Outcome(pass[k]) = "Failed"
               /\ pass[k].calls[Len(pass[k].calls)].op = "Delete"

\* the Delete of a pass failed because another actor had removed the record
C17_Witness ==
    \E k \in Names :
        /\ Done(pass[k])
        /\ Called(pass[k], "Delete")
        /\ pass[k].deleteErr = ErrStoreNotFound
        /\ Outcome(pass[k]) = "Failed"

\* the errors of the resolver
ResolverErrors == {ErrInvalidVMName, ErrProviderNotSupported, ErrCloudNotAzure}

\* C16: a failure to resolve the provider identifier of a not-Ready node
\* (invalid name, unsupported provider, provider context of the wrong type)
\* does not end the pass with an error: the status is Unknown, no provider
\* query is made, and the pass ends Requeued with nil error, no event and no
\* Delete.
C16_UnresolvableRequeued ==
    \A k \in Names :
        (pass[k].pc # "idle" /\ pass[k].getErr = ErrNil /\ NotReady(pass[k].ready)
            /\ getProviderID(cloud, pass[k].node).err # ErrNil)
            => /\ getProviderID(cloud, pass[k].node).err \in ResolverErrors
               /\ Done(pass[k])
               /\ Classified(pass[k], providerNodeStatusUnknown)
               /\ pass[k].statusErr = getProviderID(cloud, pass[k].node).err
               /\ ProviderCalls(pass[k]) = 0
               /\ pass[k].result = Result(TRUE, ErrNil)
               /\ Outcome(pass[k]) = "Requeued"
               /\ pass[k].events = << >>
               /\ ~Called(pass[k], "Delete")

\* a pass over a not-Ready node met a provider context of the wrong type
\* while the instance was gone
C16_Witness ==
    \E k \in Names :
        /\ Done(pass[k])
        /\ pass[k].statusErr = ErrCloudNotAzure
        /\ Outcome(pass[k]) = "Requeued"
        /\ instance[k] = "Gone"

\* passes met each of the other two resolver errors
C16_WitnessInvalidName ==
    \E k \in Names : Done(pass[k]) /\ pass[k].statusErr = ErrInvalidVMName

C16_WitnessNotSupported ==
    \E k \in Names : Done(pass[k]) /\ pass[k].statusErr = ErrProviderNotSupported

\* the record fetched by the pass carries no Ready condition
FetchedWithoutReady(p) ==
    /\ p.pc # "idle"
    /\ p.getErr = ErrNil
    /\ getNodeReadyCondition(p.node.conds).err # ErrNil

\* C14: a record that carries no Ready condition at all ends the pass with
\* the hard error of getNodeReadyCondition returned to the scheduler, whatever
\* the name and the providerID of the node, and no provider call, event or
\* Delete happens in that pass.  (Stated over the keys of whichever
\* reconciler runs.)
C14_Original ==
    \A k \in DOMAIN pass :
        FetchedWithoutReady(pass[k])
            => /\ Done(pass[k])
               /\ pass[k].result = Result(FALSE, ErrNoReadyCondition)
               /\ Outcome(pass[k]) = "Failed"
               /\ ProviderCalls(pass[k]) = 0
               /\ pass[k].events = << >>
               /\ ~Called(pass[k], "Delete")

\* a pass over a record without a Ready condition has returned
C14_Witness ==
    \E k \in DOMAIN pass :
        /\ FetchedWithoutReady(pass[k])
        /\ Done(pass[k])
        /\ pass[k].node.providerID = EmptyString

\* the pass record of the resolver run is the result of applying fn
Applied(p, fn) == p.pc = "done" /\ p.calls # << >> /\ p.calls[1] = fn

\* C18: for every node whose providerID is not empty, getProviderID returns
\* the stored value unchanged with no error and goes through no derivation
\* function, not even the lookup of the provider family, under every cloud
\* context, the unsupported ones included.
C18_RecordedIDReturnedUnchanged ==
    \A k \in DOMAIN pass :
        (Applied(pass[k], "getProviderID") /\ store[k].providerID # EmptyString)
            => /\ pass[k].providerID = store[k].providerID
               /\ pass[k].statusErr = ErrNil
               /\ pass[k].calls = << "getProviderID" >>

\* getProviderID returned the recorded identifier of a node whose name is
\* not of the provider's form, under a provider that is not supported
C18_Witness ==
    \E k \in DOMAIN pass :
        /\ Applied(pass[k], "getProviderID")
        /\ pass[k].providerID = RecordedID
        /\ cloud = GceCloud
        /\ generateProviderID(cloud, k).err # ErrNil

\* the positions of the hyphens of a name, and the i-th of them
Hyphens(name) == {i \in 1 .. Len(name) : name[i] = "-"}
HyphenAt(name, n) ==
    CHOOSE i \in Hyphens(name) : Cardinality({j \in Hyphens(name) : j <= i}) = n

\* the name has the shape X-Y-i-<id>: three hyphens, "i" alone between the
\* second and the third
AwsShaped(name) ==
    /\ Cardinality(Hyphens(name)) = 3
    /\ HyphenAt(name, 3) = HyphenAt(name, 2) + 2
    /\ name[HyphenAt(name, 2) + 1] = "i"

\* what follows the last hyphen of a name
AfterLastHyphen(name) ==
    SubSeq(name, HyphenAt(name, Cardinality(Hyphens(name))) + 1, Len(name))

C19_WitnessFiveSegments ==
    \E k \in DOMAIN pass :
        /\ Applied(pass[k], "awsProviderIDBuilder")
        /\ k = << "-", "-", "i", "-", "-" >>
        /\ pass[k].statusErr = ErrInvalidVMName

\* the last six characters of a name
LastSix(name) == SubSeq(name, Len(name) - 5, Len(name))

\* a string of digits without its leading zeros ("0" when all are zeros)
StripZeros(s) ==
    LET nz == {i \in 1 .. Len(s) : s[i] # "0"}
    IN  IF nz = {} THEN << "0" >>
        ELSE SubSeq(s, CHOOSE i \in nz : \A j \in nz : i <= j, Len(s))

\* C20: for every name longer than six characters, extractAzureVMID succeeds
\* iff the last six characters are all decimal digits; on success it returns
\* that number in decimal without leading zeros, otherwise it fails with
\* ErrInvalidVMName and an empty result.
C20_AzureOrdinal ==
    \A k \in DOMAIN pass :
        (Len(k) > 6 /\ pass[k].pc # "idle" /\ pass[k].calls[1] = "extractAzureVMID")
            => /\ pass[k].pc = "done"
               /\ IF \A i \in 1 .. 6 : LastSix(k)[i] \in Digits
                  THEN /\ pass[k].statusErr = ErrNil
                       /\ pass[k].providerID = StripZeros(LastSix(k))
                  ELSE /\ pass[k].statusErr = ErrInvalidVMName
                       /\ pass[k].providerID = EmptyString

\* 001001 became 1001
C20_Witness ==
    \E k \in DOMAIN pass :
        /\ Applied(pass[k], "extractAzureVMID")
        /\ k = << "v", "0", "0", "1", "0", "0", "1" >>
        /\ pass[k].providerID = << "1", "0", "0", "1" >>

\* 000001 became 1, 999999 stayed, 00000a was refused
C20_WitnessOne ==
    \E k \in DOMAIN pass :
        /\ Applied(pass[k], "extractAzureVMID")
        /\ k = << "v", "0", "0", "0", "0", "0", "1" >>
        /\ pass[k].providerID = << "1" >>

C20_WitnessNines ==
    \E k \in DOMAIN pass :
        /\ Applied(pass[k], "extractAzureVMID")
        /\ k = << "v", "9", "9", "9", "9", "9", "9" >>
        /\ pass[k].providerID = << "9", "9", "9", "9", "9", "9" >>

C20_WitnessRefused ==
    \E k \in DOMAIN pass :
        /\ Applied(pass[k], "extractAzureVMID")
        /\ k = << "v", "0", "0", "0", "0", "0", "a" >>
        /\ pass[k].statusErr = ErrInvalidVMName

\* the pass record of the resolver run is that of fn, returned or faulted
Entered(p, fn) == p.pc # "idle" /\ p.calls # << >> /\ p.calls[1] = fn

\* the cloud context is the *azure.Cloud the azure builder expects
AzureContext == cloud.type = "azure.Cloud"

\* C21: for every name of more than six characters extractAzureScaleSet
\* returns the name without its last six characters; for every name of six
\* characters or fewer it fails with ErrInvalidVMName and an empty result.
\* So azureProviderIDBuilder, given an azure context, fails with
\* ErrInvalidVMName and without a run-time fault for every name of six
\* characters or fewer.
C21_AzureScaleSet ==
    \A k \in DOMAIN pass :
        /\ Entered(pass[k], "extractAzureScaleSet")
            => /\ pass[k].pc = "done"
               /\ IF Len(k) > 6
                  THEN /\ pass[k].providerID = SubSeq(k, 1, Len(k) - 6)
                       /\ pass[k].statusErr = ErrNil
                  ELSE /\ pass[k].providerID = EmptyString
                       /\ pass[k].statusErr = ErrInvalidVMName
        /\ (Entered(pass[k], "azureProviderIDBuilder") /\ AzureContext /\ Len(k) <= 6)
            => /\ pass[k].pc = "done"
               /\ pass[k].providerID = EmptyString
               /\ pass[k].statusErr = ErrInvalidVMName

\* the azure builder refused a name of exactly six digits
C21_Witness ==
    \E k \in DOMAIN pass :
        /\ Applied(pass[k], "azureProviderIDBuilder")
        /\ AzureContext
        /\ k = << "0", "0", "0", "0", "0", "1" >>
        /\ pass[k].statusErr = ErrInvalidVMName

\* extractAzureScaleSet refused a six-character name and cut a longer one
C21_WitnessSix ==
    \E k \in DOMAIN pass :
        /\ Applied(pass[k], "extractAzureScaleSet")
        /\ Len(k) = 6 /\ pass[k].statusErr = ErrInvalidVMName

C21_WitnessSeven ==
    \E k \in DOMAIN pass :
        /\ Applied(pass[k], "extractAzureScaleSet")
        /\ Len(k) = 7 /\ pass[k].providerID = << "v" >> /\ pass[k].statusErr = ErrNil

\* a name the azure functions accept: more than six characters, the last six
\* all digits
AzureShaped(name) ==
    Len(name) > 6 /\ \A i \in 1 .. 6 : LastSix(name)[i] \in Digits

\* C22: for a valid name and an azure context, azureProviderIDBuilder returns
\* the scale set path when the VM type of the context is "vmss" and the flat
\* path for any other VM type, both with the subscription and the resource
\* group of the context and the ordinal in decimal without leading zeros.
C22_AzureComposition ==
    \A k \in DOMAIN pass :
        (Entered(pass[k], "azureProviderIDBuilder") /\ AzureContext /\ AzureShaped(k))
            => /\ pass[k].pc = "done"
               /\ pass[k].statusErr = ErrNil
               /\ pass[k].providerID =
                    IF cloud.VMType = "vmss"
                    THEN << "azure:///subscriptions/" >> \o cloud.SubscriptionID
                         \o << "/resourceGroups/" >> \o cloud.ResourceGroup
                         \o << "/providers/Microsoft.Compute/virtualMachineScaleSets/" >>
                         \o SubSeq(k, 1, Len(k) - 6)
                         \o << "/virtualMachines/" >> \o StripZeros(LastSix(k))
                    ELSE << "azure:///subscriptions/" >> \o cloud.SubscriptionID
                         \o << "/resourceGroups/" >> \o cloud.ResourceGroup
                         \o << "/virtualMachines/" >> \o StripZeros(LastSix(k))

\* the flat path was built for v001001 under the context of another VM type
C22_Witness ==
    \E k \in DOMAIN pass :
        /\ Applied(pass[k], "azureProviderIDBuilder")
        /\ cloud = AzureStandardCloud
        /\ k = << "v", "0", "0", "1", "0", "0", "1" >>
        /\ pass[k].providerID =
              << "azure:///subscriptions/", "s", "2", "/resourceGroups/", "r", "h",
                 "/virtualMachines/", "1", "0", "0", "1" >>

\* the scale set path was built for v001001 under the vmss context
C22_WitnessVmss ==
    \E k \in DOMAIN pass :
        /\ Applied(pass[k], "azureProviderIDBuilder")
        /\ cloud = AzureVmssCloud
        /\ k = << "v", "0", "0", "1", "0", "0", "1" >>
        /\ pass[k].providerID =
              << "azure:///subscriptions/", "s", "1", "/resourceGroups/", "r", "g",
                 "/providers/Microsoft.Compute/virtualMachineScaleSets/", "v",
                 "/virtualMachines/", "1", "0", "0", "1" >>

\* the pass record of the resolver run is that of a derivation for a node
\* without providerID: generateProviderID itself, or getProviderID that went
\* on to it
Derived(p) ==
    \/ Entered(p, "generateProviderID")
    \/ Entered(p, "getProviderID") /\ p.node.providerID = EmptyString

\* C23: for a node with empty providerID the derivation is chosen by the name
\* of the provider family: the aws builder for "aws", the azure builder for
\* "azure"; every other family fails with ErrProviderNotSupported and an
\* empty identifier, and no builder runs.
C23_FamilyDispatch ==
    \A k \in DOMAIN pass :
        Derived(pass[k])
            => /\ pass[k].pc = "done"
               /\ cloud.name = "aws"
                    => Ret(pass[k].providerID, pass[k].statusErr)
                         = awsProviderIDBuilder(cloud, k)
               /\ cloud.name = "azure"
                    => Ret(pass[k].providerID, pass[k].statusErr)
                         = azureProviderIDBuilder(cloud, k)
               /\ cloud.name \notin {"aws", "azure"}
                    => /\ pass[k].providerID = EmptyString
                       /\ pass[k].statusErr = ErrProviderNotSupported
                       /\ \A i \in DOMAIN pass[k].calls :
                            pass[k].calls[i] \in {"getProviderID", "generateProviderID"}

\* getProviderID refused a node without providerID, with a name the aws
\* builder accepts, under a family that has no builder
C23_Witness ==
    \E k \in DOMAIN pass :
        /\ Applied(pass[k], "getProviderID")
        /\ pass[k].node.providerID = EmptyString
        /\ cloud = VsphereCloud
        /\ AwsShaped(k)
        /\ pass[k].statusErr = ErrProviderNotSupported

\* the family a derivation is declared for: that of the builder called, or
\* the one generateProviderID finds under the provider's name
Family(p) ==
    IF Entered(p, "awsProviderIDBuilder") THEN "aws"
    ELSE IF Entered(p, "azureProviderIDBuilder") THEN "azure"
    ELSE IF Derived(p) /\ cloud.name \in providerIDBuilders THEN cloud.name
    ELSE "none"

\* the Go type of the provider of each family
FamilyType(f) == IF f = "aws" THEN "aws.Cloud" ELSE "azure.Cloud"

\* C24 as stated: every derivation whose cloud is not of the type of its
\* family fails with ErrCloudNotAzure, the error for a wrong context.
C24_Original ==
    \A k \in DOMAIN pass :
        (Family(pass[k]) # "none" /\ cloud.type # FamilyType(Family(pass[k])))
            => /\ pass[k].pc = "done"
               /\ pass[k].statusErr = ErrCloudNotAzure

\* C24: an azure derivation whose cloud is not an *azure.Cloud fails with
\* ErrCloudNotAzure and an empty identifier whatever the name, so also for a
\* name the azure functions refuse; an aws derivation never looks at its
\* cloud: its result is the one it has under the aws cloud and it never
\* fails with ErrCloudNotAzure.
C24_ContextChecked ==
    \A k \in DOMAIN pass :
        /\ (Family(pass[k]) = "azure" /\ cloud.type # "azure.Cloud")
            => /\ pass[k].pc = "done"
               /\ pass[k].providerID = EmptyString
               /\ pass[k].statusErr = ErrCloudNotAzure
        /\ Family(pass[k]) = "aws"
            => /\ pass[k].pc = "done"
               /\ pass[k].statusErr # ErrCloudNotAzure
               /\ Ret(pass[k].providerID, pass[k].statusErr)
                    = awsProviderIDBuilder(AwsCloud, k)

\* the azure builder, given another cloud, refused a name of five characters
\* with ErrCloudNotAzure
C24_Witness ==
    \E k \in DOMAIN pass :
        /\ Applied(pass[k], "azureProviderIDBuilder")
        /\ cloud = FakeAzureCloud
        /\ ~AzureShaped(k)
        /\ pass[k].statusErr = ErrCloudNotAzure

\* an aws derivation succeeded under a cloud that is not an *aws.Cloud
C24_WitnessAws ==
    \E k \in DOMAIN pass :
        /\ Derived(pass[k])
        /\ cloud = FakeAwsCloud
        /\ AwsShaped(k)
        /\ pass[k].statusErr = ErrNil
        /\ pass[k].providerID # EmptyString
\* the arguments of the provider calls of a pass
ProviderArgs(p) ==
    {p.calls[i].arg : i \in {j \in DOMAIN p.calls :
        p.calls[j].op \in {"InstanceExistsByProviderID", "InstanceShutdownByProviderID"}}}

\* the pass went into nodeStatus with a record that has no providerID
StatusOfUnrecorded(p) ==
    /\ p.pc # "idle"
    /\ p.getErr = ErrNil
    /\ NotReady(p.ready)
    /\ p.node.providerID = EmptyString

C25_WitnessDerived ==
    \E k \in Names :
        /\ StatusOfUnrecorded(pass[k])
        /\ Done(pass[k])
        /\ ProviderCalls(pass[k]) = 2
        /\ ProviderArgs(pass[k]) = {<< "aws:///", "i", "-", "0", "a" >>}
\* how a message states the classification: its text from "node status is" on
StatedStatus(msg) == << "node status is ", msg[Len(msg)] >>

\* C26 as stated: the message of every DeletingNode event states
\* "node status is NotFound" when the pass classified NotFound and
\* "node status is Shutdown" when it classified Shutdown.
C26_Original ==
    \A k \in Names : \A i \in DOMAIN pass[k].events :
        /\ pass[k].events[i].message[Len(pass[k].events[i].message) - 1]
             = " because node status is "
        /\ Classified(pass[k], providerNodeStatusNotFound)
            => StatedStatus(pass[k].events[i].message)
                 = << "node status is ", "NotFound" >>
        /\ Classified(pass[k], providerNodeStatusShutdown)
            => StatedStatus(pass[k].events[i].message)
                 = << "node status is ", "Shutdown" >>

\* C26: the message of every DeletingNode event is "Deleting node <name>
\* because node status is <status>", where <status> reads "Not Found", in two
\* words, when the pass classified NotFound and "Shutdown" when it classified
\* Shutdown; no event is emitted under another classification.
C26_EventMessage ==
    \A k \in Names : \A i \in DOMAIN pass[k].events :
        /\ pass[k].events[i].reason = deleteNodeEvent
        /\ \/ Classified(pass[k], providerNodeStatusNotFound)
           \/ Classified(pass[k], providerNodeStatusShutdown)
        /\ pass[k].events[i].message =
              << "Deleting node " >> \o k \o << " because node status is " >>
                \o (IF pass[k].status = providerNodeStatusNotFound
                    THEN << "Not Found" >> ELSE << "Shutdown" >>)

\* an event was emitted for an instance the provider did not find
C26_Witness ==
    \E k \in Names :
        /\ Classified(pass[k], providerNodeStatusNotFound)
        /\ Len(pass[k].events) = 1
        /\ StatedStatus(pass[k].events[1].message) = << "node status is ", "Not Found" >>

\* an event was emitted for an instance the provider reported shut down
C26_WitnessShutdown ==
    \E k \in Names :
        /\ Classified(pass[k], providerNodeStatusShutdown)
        /\ Len(pass[k].events) = 1
        /\ StatedStatus(pass[k].events[1].message) = << "node status is ", "Shutdown" >>
\* the conditions with the status of the Ready condition that
\* getNodeReadyCondition finds changed from False to Unknown and back
FlipReady(conds) ==
    LET ready == {i \in DOMAIN conds : conds[i].type = NodeReady}
    IN  [i \in DOMAIN conds |->
            IF i \in ready /\ (\A j \in ready : i <= j)
            THEN Cond(NodeReady,
                      IF conds[i].status = ConditionFalse THEN ConditionUnknown
                      ELSE IF conds[i].status = ConditionUnknown THEN ConditionFalse
                      ELSE conds[i].status)
            ELSE conds[i]]

Flip(node) == [node EXCEPT !.conds = FlipReady(@)]

\* what a pass did: its calls in order (provider calls, events, Delete), its
\* events and what it returned
Treatment(p) ==
    [pc |-> p.pc, calls |-> p.calls, events |-> p.events, result |-> p.result]

\* everything a provider call and a Delete may answer
AllProviderAnswers == {Resp(b, e) : b \in BOOLEAN, e \in CloudErrors \cup {ErrNil}}
AllDeleteErrs == {ErrNil, ErrStoreNotFound, ErrStoreOther}

\* a whole pass of the first reconciler over a fetched record, given the
\* answers its calls get
FirstRun(k, node, dry, er, sr, de) ==
    LET a == firstFetched(k, node, ErrNil)
    IN  IF a.pc # "exists" THEN a
        ELSE LET b == firstExists(
                        Call(a, "InstanceExistsByProviderID", a.providerID), er)
                 c == firstShutdown(
                        Call(b, "InstanceShutdownByProviderID", b.providerID), sr, dry)
             IN  IF c.pc # "delete" THEN c
                 ELSE firstDeleted(Call(c, "Delete", c.node.name), de)

\* the same for the reconciler that main registers
CurrentRun(k, node, c, dry, er, sr, de) ==
    LET a == reconcileFetched(k, node, ErrNil, c, dry)
        b == IF a.pc # "exists" THEN a
             ELSE nodeStatusExists(
                    Call(a, "InstanceExistsByProviderID", a.providerID), er, dry)
        d == IF b.pc # "shutdown" THEN b
             ELSE nodeStatusShutdown(
                    Call(b, "InstanceShutdownByProviderID", b.providerID), sr, dry)
    IN  IF d.pc # "delete" THEN d
        ELSE reconcileNodeDeleted(Call(d, "Delete", d.node.name), de)

\* the pass has returned for a fetched record whose Ready condition is False
\* or Unknown
SuspectDone(p) ==
    /\ Done(p)
    /\ p.getErr = ErrNil
    /\ NotReady(getNodeReadyCondition(p.node.conds).cond.status)

\* C27: a finished pass over a record whose Ready condition is False (or
\* Unknown) made the same calls, emitted the same events and returned the
\* same result as the pass over the same record with Unknown (or False)
\* instead, under the same provider and store answers and the same dry-run
\* flag.  Stated for the first reconciler.
C27_Original ==
    \A k \in Names :
        SuspectDone(pass[k])
            => \A er \in AllProviderAnswers, sr \in AllProviderAnswers,
                  de \in AllDeleteErrs :
                  FirstRun(k, pass[k].node, dryRun, er, sr, de) = pass[k]
                      => Treatment(FirstRun(k, Flip(pass[k].node), dryRun, er, sr, de))
                           = Treatment(pass[k])

\* the same statement for the reconciler that main registers
C27_CurrentIdentical ==
    \A k \in Names :
        SuspectDone(pass[k])
            => \A er \in AllProviderAnswers, sr \in AllProviderAnswers,
                  de \in AllDeleteErrs :
                  CurrentRun(k, pass[k].node, cloud, dryRun, er, sr, de) = pass[k]
                      => Treatment(CurrentRun(k, Flip(pass[k].node), cloud, dryRun,
                                              er, sr, de))
                           = Treatment(pass[k])

\* a pass over a record with Ready False deleted the node, and the pass over
\* its twin with Ready Unknown is the same but for the condition
C27_WitnessCurrent ==
    \E k \in Names :
        /\ SuspectDone(pass[k])
        /\ pass[k].ready = ConditionFalse
        /\ Called(pass[k], "Delete")
        /\ \E er \in AllProviderAnswers, sr \in AllProviderAnswers,
              de \in AllDeleteErrs :
              /\ CurrentRun(k, pass[k].node, cloud, dryRun, er, sr, de) = pass[k]
              /\ CurrentRun(k, Flip(pass[k].node), cloud, dryRun, er, sr, de).ready
                   = ConditionUnknown

\* in the first reconciler a pass over a record with Ready False returned
\* without a provider call while the instance was gone
C27_WitnessFirst ==
    \E k \in Names :
        /\ SuspectDone(pass[k])
        /\ pass[k].ready = ConditionFalse
        /\ instance[k] = "Gone"
        /\ ProviderCalls(pass[k]) = 0
\* the pass that Reconcile makes for key k given only what the pass p itself
\* received: the answer of Get, the answers of the provider and of Delete,
\* under configuration c and dry
Replay(k, p, c, dry) ==
    LET a == reconcileFetched(k, p.node, p.getErr, c, dry)
        b == IF a.pc # "exists" THEN a
             ELSE nodeStatusExists(
                    Call(a, "InstanceExistsByProviderID", a.providerID),
                    p.existsResp, dry)
        d == IF b.pc # "shutdown" THEN b
             ELSE nodeStatusShutdown(
                    Call(b, "InstanceShutdownByProviderID", b.providerID),
                    p.shutdownResp, dry)
    IN  IF d.pc # "delete" THEN d
        ELSE reconcileNodeDeleted(Call(d, "Delete", d.node.name), p.deleteErr)

\* C28: every finished pass, whatever passes and changes came before it, is
\* the one determined by the record it fetched, the answers the provider and
\* the store gave it, and the configuration (cloud and dry-run flag); and no
\* step changes the configuration.
C28_NoCrossPassMemory ==
    /\ [](\A k \in Names :
            Done(pass[k]) => pass[k] = Replay(k, pass[k], cloud, dryRun))
    /\ [][cloud' = cloud /\ dryRun' = dryRun]_vars

\* a later pass: the key came back after the engine's own Delete (the only
\* change by another actor was to the instance), and the pass found no record
C28_Witness ==
    \E k \in Names :
        /\ envSteps = 1
        /\ instance[k] = "Gone"
        /\ store[k] = NoNode
        /\ Done(pass[k])
        /\ pass[k].getErr = ErrStoreNotFound
        /\ Outcome(pass[k]) = "Ignored"

\* a pass repeated the pass before it over the same key, with the same result
C28_WitnessRepeated ==
    \E k \in Names :
        /\ passes = 1
        /\ Done(pass[k])
        /\ Outcome(pass[k]) = "Requeued"
\* the operations a pass issued against the cluster store
StoreOps(p) ==
    {p.calls[i].op : i \in {j \in DOMAIN p.calls :
        p.calls[j].op \notin {"InstanceExistsByProviderID",
                              "InstanceShutdownByProviderID", "Event"}}}

\* C29: the only operations a pass issues against the cluster store are Get
\* and Delete, and a step of the engine (any step that is not a change by
\* another actor) leaves every record as it was or removes it: the fields of
\* a record that exists are those other actors wrote.
C29_RecordsNeverMutated ==
    /\ [](\A k \in Names : StoreOps(pass[k]) \subseteq {"Get", "Delete"})
    /\ [][envSteps' = envSteps
            => \A k \in Names :
                 /\ store'[k] \in {store[k], NoNode}
                 /\ store'[k] # store[k]
                      => /\ pass[k].pc = "delete"
                         /\ pass'[k].calls[Len(pass'[k].calls)].op = "Delete"]_vars

\* a pass derived an identifier for a record that has none, emitted the
\* event in dry-run mode and returned; the record is there with its
\* providerID still empty
C29_Witness ==
    \E k \in Names :
        /\ Done(pass[k])
        /\ Called(pass[k], "Event")
        /\ pass[k].providerID # EmptyString
        /\ store[k] # NoNode
        /\ store[k] = pass[k].node
        /\ store[k].providerID = EmptyString

\* a pass removed the record it fetched
C29_WitnessDeleted ==
    \E k \in Names :
        /\ Done(pass[k])
        /\ Called(pass[k], "Delete")
        /\ pass[k].deleteErr = ErrNil
        /\ store[k] = NoNode
\* C30: when passes for the two keys interleave, every Delete a pass issues
\* names the key of that pass and removes no other record, and every
\* finished pass is the one that the record it fetched and the answers it
\* received determine, that is, the pass it makes when it runs alone.
C30_ParallelPassesIndependent ==
    /\ [](\A k \in Names :
            /\ \A i \in DOMAIN pass[k].calls :
                 pass[k].calls[i].op = "Delete" => pass[k].calls[i].arg = k
            /\ pass[k].pc # "idle" /\ pass[k].getErr = ErrNil
                 => pass[k].node.name = k
            /\ Done(pass[k]) => pass[k] = Replay(k, pass[k], cloud, dryRun))
    /\ [][\A k \in Names :
            store'[k] # store[k]
                => /\ store'[k] = NoNode
                   /\ pass[k].pc = "delete"
                   /\ pass'[k].calls[Len(pass'[k].calls)] = [op |-> "Delete", arg |-> k]
                   /\ \A j \in Names \ {k} : pass'[j] = pass[j] /\ store'[j] = store[j]]_vars

\* both passes are in flight, one about to delete its node, the other
\* between its two provider calls
C30_Witness ==
    \E k \in Names : \E j \in Names \ {k} :
        /\ pass[k].pc = "delete"
        /\ pass[j].pc = "shutdown"
        /\ store[k] # NoNode /\ store[j] # NoNode

\* one pass removed its record while the other was in flight, whose record
\* is still there
C30_WitnessDeleted ==
    \E k \in Names : \E j \in Names \ {k} :
        /\ Done(pass[k])
        /\ Called(pass[k], "Delete")
        /\ store[k] = NoNode
        /\ pass[j].pc = "shutdown"
        /\ store[j] = pass[j].node
\* the positions in the calls of a pass at which it called op
Positions(p, op) == {i \in DOMAIN p.calls : p.calls[i].op = op}

\* C31: a pass makes at most one Get, one InstanceExistsByProviderID, one
\* InstanceShutdownByProviderID, one event and one Delete, in that order: the
\* Get first, the shutdown query only after the existence query, the event
\* after the provider queries and the Delete last; a finished pass makes no
\* further call.
C31_NoInternalRetry ==
    \A k \in Names :
        /\ \A op \in {"Get", "InstanceExistsByProviderID",
                       "InstanceShutdownByProviderID", "Event", "Delete"} :
             Count(pass[k], op) <= 1
        /\ \A i \in DOMAIN pass[k].calls :
             pass[k].calls[i].op \in {"Get", "InstanceExistsByProviderID",
                                      "InstanceShutdownByProviderID", "Event", "Delete"}
        /\ pass[k].pc # "idle" => Positions(pass[k], "Get") = {1}
        /\ Positions(pass[k], "InstanceExistsByProviderID") \subseteq {2}
        /\ Positions(pass[k], "InstanceShutdownByProviderID") \subseteq {3}
        /\ Called(pass[k], "InstanceShutdownByProviderID")
             => Called(pass[k], "InstanceExistsByProviderID")
        /\ \A i \in Positions(pass[k], "Delete") :
             /\ i = Len(pass[k].calls)
             /\ pass[k].calls[i - 1].op = "Event"
        /\ \A i \in Positions(pass[k], "Event") : i \in {3, 4}

\* a pass made each of the five calls once and returned
C31_Witness ==
    \E k \in Names :
        /\ Done(pass[k])
        /\ Len(pass[k].calls) = 5
        /\ Called(pass[k], "Delete")
        /\ Called(pass[k], "InstanceShutdownByProviderID")

\* a pass whose existence query failed hard returned after that one query,
\* and the key is on the queue again
C31_WitnessRedelivered ==
    \E k \in Names :
        /\ Done(pass[k])
        /\ pass[k].existsResp.err = ErrCloudNoAnswer
        /\ Len(pass[k].calls) = 2
        /\ k \in queue
\* the pass has reached the deletion decision: nodeStatus returned NotFound
\* or Shutdown
Decided(p) ==
    \/ Classified(p, providerNodeStatusNotFound)
    \/ Classified(p, providerNodeStatusShutdown)

\* C32: a pass that reaches the deletion decision emits the DeletingNode
\* event exactly once, for the node it fetched, and before its Delete call if
\* it makes one; the count stays one when the Delete fails.  A pass that does
\* not reach the decision (fetch error, record gone, missing Ready condition,
\* Ready node, status Unknown) emits no event.
C32_EventOnceBeforeDelete ==
    \A k \in Names :
        /\ Decided(pass[k])
            => /\ Len(pass[k].events) = 1
               /\ Count(pass[k], "Event") = 1
               /\ pass[k].events[1].reason = deleteNodeEvent
               /\ pass[k].events[1].name = pass[k].node.name
               /\ pass[k].events[1].uid = pass[k].node.uid
        /\ \A i \in Positions(pass[k], "Delete") :
             \E j \in Positions(pass[k], "Event") : j < i
        /\ ~Decided(pass[k])
            => /\ pass[k].events = << >>
               /\ ~Called(pass[k], "Event")
               /\ ~Called(pass[k], "Delete")
        /\ (Done(pass[k]) /\ ~Decided(pass[k]))
            => \/ pass[k].getErr # ErrNil
               \/ getNodeReadyCondition(pass[k].node.conds).err # ErrNil
               \/ pass[k].ready = ConditionTrue
               \/ Classified(pass[k], providerNodeStatusUnknown)

\* a pass emitted its one event, called Delete, and the Delete failed
C32_Witness ==
    \E k \in Names :
        /\ Done(pass[k])
        /\ Decided(pass[k])
        /\ pass[k].deleteErr = ErrStoreOther
        /\ Len(pass[k].events) = 1
        /\ Positions(pass[k], "Event") = {Len(pass[k].calls) - 1}

\* a pass is between its event and its Delete call
C32_WitnessBetween ==
    \E k \in Names :
        /\ pass[k].pc = "delete"
        /\ Len(pass[k].events) = 1
        /\ ~Called(pass[k], "Delete")
\* C33: no finished pass returns Requeue true together with an error.  A
\* pass returns (Requeue true, nil) exactly when nodeStatus gave Unknown, and
\* it returns an error exactly when the Get failed with something other than
\* not-found, the record has no Ready condition, or the Delete failed; the
\* error returned is that one.
C33_FailedAndRequeuedDistinct ==
    \A k \in Names :
        Done(pass[k])
            => /\ ~(pass[k].result.Requeue /\ pass[k].result.err # ErrNil)
               /\ pass[k].result.Requeue
                    <=> Classified(pass[k], providerNodeStatusUnknown)
               /\ (Outcome(pass[k]) = "Requeued")
                    <=> pass[k].result = Result(TRUE, ErrNil)
               /\ pass[k].result.err # ErrNil
                    <=> \/ pass[k].getErr # ErrNil /\ ~IsNotFound(pass[k].getErr)
                        \/ /\ pass[k].getErr = ErrNil
                           /\ getNodeReadyCondition(pass[k].node.conds).err # ErrNil
                        \/ pass[k].deleteErr # ErrNil
               /\ pass[k].result.err
                    \in {ErrNil, pass[k].getErr, ErrNoReadyCondition, pass[k].deleteErr}
               /\ pass[k].statusErr # ErrNil => pass[k].result = Result(TRUE, ErrNil)

\* a pass whose nodeStatus failed with a hard provider error returned the
\* requeue without that error
C33_Witness ==
    \E k \in Names :
        /\ Done(pass[k])
        /\ pass[k].statusErr = ErrCloudNoAnswer
        /\ pass[k].result = Result(TRUE, ErrNil)

\* a pass returned the not-found error of its Delete, without a requeue
C33_WitnessErrors ==
    \E k \in Names :
        /\ Done(pass[k])
        /\ pass[k].result.err = ErrStoreNotFound
        /\ pass[k].deleteErr = ErrStoreNotFound
        /\ ~pass[k].result.Requeue
\* the status of the Ready condition of a record ("" when it has none)
ReadyOf(node) == getNodeReadyCondition(node.conds).cond.status

\* a step in which the Delete of the pass for key k removes the record
Deletes(k) ==
    /\ pass[k].pc = "delete"
    /\ store[k] # NoNode
    /\ store'[k] = NoNode

\* C34: whenever the Delete of a pass removes a record, that record is not
\* Ready at that moment and is the record the pass fetched (same UID), also
\* when other actors changed the store after the fetch.
C34_Original ==
    [][\A k \in Names :
         Deletes(k) => /\ NotReady(ReadyOf(store[k]))
                       /\ store[k].uid = pass[k].node.uid]_vars

\* a pass is about to call Delete while the record has become Ready again
C34_Witness ==
    \E k \in Names :
        /\ pass[k].pc = "delete"
        /\ NotReady(pass[k].ready)
        /\ store[k] # NoNode
        /\ ReadyOf(store[k]) = ConditionTrue
        /\ store[k].uid = pass[k].node.uid
\* the pass fetched a not-Ready record for which no identifier can be had
PassOverUnresolvable(p) ==
    /\ p.pc # "idle"
    /\ p.getErr = ErrNil
    /\ NotReady(p.ready)
    /\ getProviderID(cloud, p.node).err # ErrNil

\* the pass for key k has returned the requeue and the key is queued again
RequeuedAgain(k) ==
    /\ Done(pass[k])
    /\ pass[k].result = Result(TRUE, ErrNil)
    /\ k \in queue

\* C35: every pass that fetches a not-Ready record without providerID for
\* which none can be derived ends Requeued with nil error, without provider
\* call, event or Delete, and its key is queued again; no Delete of the
\* engine ever removes such a record; and while the record stays that way
\* and the store answers, such passes recur for ever (the pass counter keeps
\* alternating).
C35_RequeuedForever ==
    /\ [](\A k \in Names :
            PassOverUnresolvable(pass[k])
                => /\ RequeuedAgain(k)
                   /\ ProviderCalls(pass[k]) = 0
                   /\ pass[k].events = << >>
                   /\ ~Called(pass[k], "Delete"))
    /\ [][\A k \in Names :
            Deletes(k) => getProviderID(cloud, pass[k].node).err = ErrNil]_vars
    /\ \A k \in Names :
          ([](RecordNotReady(k) /\ ~Resolvable(k)) /\ <>[](~faults))
              => /\ []<>(passes = 1 /\ RequeuedAgain(k))
                 /\ []<>(passes = 0 /\ RequeuedAgain(k))

\* a pass over an unresolvable node has just repeated the pass before it,
\* while the instance is gone and the store answers
C35_Witness ==
    \E k \in Names :
        /\ PassOverUnresolvable(pass[k])
        /\ RequeuedAgain(k)
        /\ passes = 1
        /\ instance[k] = "Gone"
        /\ ~faults
        /\ store[k] = pass[k].node
\* the existence query of the pass returned an error, and the pass has gone
\* on past its shutdown query
ExistsFailed(p) ==
    /\ Called(p, "InstanceExistsByProviderID")
    /\ p.existsResp.err # ErrNil
    /\ p.pc \notin {"exists", "shutdown"}

\* C36: in the Reconcile of node_controller.go a pass whose existence query
\* returned an error returns that error and emits no event and calls no
\* Delete, whatever the shutdown query returns.
C36_Original ==
    \A k \in DOMAIN pass :
        ExistsFailed(pass[k])
            => /\ Done(pass[k])
               /\ pass[k].result.err = pass[k].existsResp.err
               /\ pass[k].events = << >>
               /\ ~Called(pass[k], "Delete")

\* a pass of the legacy reconciler whose existence query failed removed the
\* record of a node whose instance is running
C36_Witness ==
    \E k \in DOMAIN pass :
        /\ ExistsFailed(pass[k])
        /\ pass[k].shutdownResp = Resp(FALSE, ErrNil)
        /\ Done(pass[k])
        /\ Called(pass[k], "Delete")
        /\ pass[k].deleteErr = ErrNil
        /\ instance[k] = "Running"
        /\ store[k] = NoNode

\* the pass fetched a record without providerID: Reconcile falls back to the
\* node name
FellBack(p) ==
    /\ p.pc # "idle"
    /\ p.getErr = ErrNil
    /\ p.node.providerID = EmptyString

\* the hyphen segments of the name end in "i", <last segment>
NamesInstance(name) ==
    /\ Len(Split(name)) >= 2
    /\ Split(name)[Len(Split(name)) - 1] = << "i" >>

\* C37: in the Reconcile of node_controller.go the fallback for a node with
\* empty providerID is total: for every node name, the names with no hyphen
\* included, the pass either goes on with aws:///i-<last segment> (the
\* segment before the last is "i") or has returned the empty result with nil
\* error without any provider call, and it never ends in a run-time fault.
C37_Original ==
    \A k \in DOMAIN pass :
        FellBack(pass[k])
            => /\ pass[k].pc # "panic"
               /\ IF NamesInstance(pass[k].node.name)
                  THEN pass[k].providerID
                         = << "aws:///i-" >> \o Split(pass[k].node.name)[Len(Split(pass[k].node.name))]
                  ELSE /\ Done(pass[k])
                       /\ pass[k].result = Result(FALSE, ErrNil)
                       /\ ProviderCalls(pass[k]) = 0

\* a pass over a node without providerID whose name has no hyphen ended in a
\* run-time fault
C37_Witness ==
    \E k \in DOMAIN pass :
        /\ FellBack(pass[k])
        /\ Len(Split(pass[k].node.name)) = 1
        /\ pass[k].pc = "panic"

\* on the names that have a hyphen the fallback is as stated: no pass over
\* such a name ends in a run-time fault
C37_HyphenatedTotal ==
    \A k \in DOMAIN pass :
        (FellBack(pass[k]) /\ Len(Split(pass[k].node.name)) >= 2)
            => /\ pass[k].pc # "panic"
               /\ NamesInstance(pass[k].node.name)
                    \/ (Done(pass[k]) /\ pass[k].result = Result(FALSE, ErrNil))

\* a pass skipped a node whose name has a hyphen and no "i" segment
C37_WitnessSkipped ==
    \E k \in DOMAIN pass :
        /\ FellBack(pass[k])
        /\ ~NamesInstance(pass[k].node.name)
        /\ Len(Split(pass[k].node.name)) >= 2
        /\ Done(pass[k])

(***************************************************************************)
(* getNodeReadyCondition applied to condition lists of every shape: any    *)
(* number of Ready conditions, at any position, among conditions of        *)
(* another type.                                                           *)
(***************************************************************************)
ConditionTypes == {NodeReady, "MemoryPressure"}
ConditionStatuses == {ConditionTrue, ConditionFalse, ConditionUnknown}
Conditions == {Cond(t, st) : t \in ConditionTypes, st \in ConditionStatuses}
ConditionLists == UNION {SeqsOfLen(Conditions, n) : n \in 0 .. MaxConds}

ConditionInit ==
    /\ dryRun = FALSE
    /\ cloud = AwsCloud
    /\ \E conds \in ConditionLists :
         store = [k \in {NameAws} |-> Node(NameAws, RecordedID, conds, 1)]
    /\ instance = [k \in DOMAIN store |-> "Running"]
    /\ faults = FALSE
    /\ queue = {}
    /\ pass = [k \in DOMAIN store |-> IdlePass]
    /\ registered = [k \in DOMAIN store |-> 1]
    /\ passes = 0
    /\ envSteps = 0

\* getNodeReadyCondition(node.Status.Conditions) returned (cond, err)
CallGetNodeReadyCondition(k) ==
    /\ pass[k].pc = "idle"
    /\ \E r \in {getNodeReadyCondition(store[k].conds)} :
         pass' = [pass EXCEPT ![k] =
                    [pc |-> "done", node |-> store[k],
                     calls |-> << "getNodeReadyCondition" >>,
                     cond |-> r.cond, err |-> r.err]]
    /\ UNCHANGED << dryRun, cloud, store, instance, faults, queue, registered,
                    passes, envSteps >>

ConditionNext == \E k \in DOMAIN store : CallGetNodeReadyCondition(k)

ConditionSpec == ConditionInit /\ [][ConditionNext]_vars

\* the positions of the conditions of type Ready in the list
ReadyPositions(conds) == {i \in 1 .. Len(conds) : conds[i].type = NodeReady}

\* the list without its conditions of another type
OnlyReady(conds) == SelectSeq(conds, LAMBDA c : c.type = NodeReady)

\* C38: getNodeReadyCondition returns the first condition of type Ready in
\* list order, with no error; it returns an error exactly when the list
\* holds no condition of type Ready; and the result is that of the list with
\* the conditions of every other type taken out, so that those never
\* influence it.
C38_FirstReadyInListOrder ==
    \A k \in DOMAIN pass :
        Applied(pass[k], "getNodeReadyCondition")
            => LET conds == pass[k].node.conds
                   ready == ReadyPositions(conds)
               IN  /\ (pass[k].err # ErrNil) <=> (ready = {})
                   /\ ready # {}
                        => /\ \E i \in ready :
                                /\ \A j \in ready : i <= j
                                /\ pass[k].cond = conds[i]
                           /\ pass[k].cond = Head(OnlyReady(conds))
                   /\ ready = {} => pass[k].err = ErrNoReadyCondition

\* the function was applied to a list with a condition of another type ahead
\* of two Ready conditions of different status, and returned the first of the
\* two
C38_Witness ==
    \E k \in DOMAIN pass :
        /\ Applied(pass[k], "getNodeReadyCondition")
        /\ pass[k].node.conds
             = << Cond("MemoryPressure", ConditionTrue),
                  Cond(NodeReady, ConditionFalse), Cond(NodeReady, ConditionTrue) >>
        /\ pass[k].cond = Cond(NodeReady, ConditionFalse)
        /\ pass[k].err = ErrNil

\* the function was applied to a list of conditions none of which is of type
\* Ready, and returned the error
C38_WitnessNoReady ==
    \E k \in DOMAIN pass :
        /\ Applied(pass[k], "getNodeReadyCondition")
        /\ Len(pass[k].node.conds) = MaxConds
        /\ ReadyPositions(pass[k].node.conds) = {}
        /\ pass[k].err = ErrNoReadyCondition
====
